---------------------------- MODULE Spec2Model ----------------------------
(***************************************************************************)
(* Model of github.com/LdDl/mot-go: the track state (SimpleBlob, BlobBBox) *)
(* and the three trackers (SimpleTracker, IoUTracker, ByteTracker).        *)
(*                                                                         *)
(* Coordinates are integers.  Real-valued scores (IoU, the hybrid score of *)
(* the IoU tracker, confidences, thresholds) are exact rationals <<n, d>>  *)
(* with d > 0.  Distances are exact on the detection boxes used here       *)
(* (centres on one horizontal line, 6x8 boxes with diagonal 10).           *)
(***************************************************************************)
EXTENDS Integers, Sequences, FiniteSets, TLC

VARIABLES
    kind,       \* which tracker this instance is: "simple", "iou", "byte"; "blob" for a lone
                \* blob; "geom" for a call of the function IoU; "heap" for a distanceHeap;
                \* "greedy" for a call of performGreedyMatching
    cfg,        \* the tracker's configuration (constructor arguments)
    Objects,    \* the tracker's store: key (uuid) -> blob
    nextID,     \* the next value uuid.New() returns
    pre,        \* Objects at the start of the last call
    dets,       \* the detection blobs handed to the last call, as the call left them
    confs,      \* the confidences handed to the last call (ByteTracker)
    ret,        \* how the last call ended: "init", "nil", "error", "panic"
    log,        \* the calls the last MatchObjects made on blobs and store, in program order
    missRun,    \* per stored key: consecutive completed frames without an Update of that track
    evicted,    \* per key ever removed from the store: the box the track had when its last frame began
    seen,       \* per stored key: the centres the track was observed at, oldest first
    iouRun,     \* the arguments r1, r2 of a call of IoU and, once it has returned, its result
    heapRun,    \* a distanceHeap h, the items pushed onto it and the items popped from it
    greedyRun   \* the arguments of a call of performGreedyMatching and, once it has returned, its result

vars == <<kind, cfg, Objects, nextID, pre, dets, confs, ret, log, missRun, evicted, seen,
          iouRun, heapRun, greedyRun>>

-----------------------------------------------------------------------------
(* Bounds of the model *)

\* how many identifiers uuid.New() hands out in one run: every detection is a
\* fresh blob with a fresh id, so this also bounds the detections of a run and
\* of each frame
MaxID == 3

\* the largest width and height, and the largest x, of the rectangles IoU is
\* called with
MaxSide == 2

\* the most items pushed onto a distanceHeap
MaxHeapLen == 4

\* the largest distance of an item pushed onto a distanceHeap
MaxDistance == 2

\* the most rows and the most columns of a matrix handed to performGreedyMatching
MaxDim == 2

-----------------------------------------------------------------------------
(* Small helpers *)

Abs(x) == IF x < 0 THEN 0 - x ELSE x

Range(s) == {s[i] : i \in 1..Len(s)}

\* the elements of a finite set of integers in ascending order
RECURSIVE SortedSeq(_)
SortedSeq(S) ==
    IF S = {} THEN <<>>
    ELSE LET m == CHOOSE x \in S : \A y \in S : x <= y
         IN <<m>> \o SortedSeq(S \ {m})

\* all sequences over S of length at most n
SeqsUpTo(S, n) == UNION {[1..k -> S] : k \in 0..n}

\* rationals <<n, d>>, d > 0
RLess(a, b) == a[1] * b[2] < b[1] * a[2]
RLeq(a, b) == a[1] * b[2] <= b[1] * a[2]
REq(a, b) == a[1] * b[2] = b[1] * a[2]
RZero == <<0, 1>>

\* uuid.UUID{}: the zero identifier, never returned by uuid.New()
NilID == 0

\* math.MaxFloat64: larger than every distance of the model
MaxFloat64 == 1000000

-----------------------------------------------------------------------------
(* geom_f64.go and IoU *)

Point(x, y) == [X |-> x, Y |-> y]

Rectangle(x, y, w, h) == [X |-> x, Y |-> y, Width |-> w, Height |-> h]

\* floor of the square root
ISqrt(n) == CHOOSE r \in 0..n : r * r <= n /\ (r + 1) * (r + 1) > n

euclideanDistance(p1, p2) ==
    LET dx == Abs(p1.X - p2.X)
        dy == Abs(p1.Y - p2.Y)
    IN IF dy = 0 THEN dx
       ELSE IF dx = 0 THEN dy
       ELSE CHOOSE r \in 0..(dx + dy) :
                r * r <= dx * dx + dy * dy /\ (r + 1) * (r + 1) > dx * dx + dy * dy

maxFloat64(a, b) == IF a > b THEN a ELSE b

minFloat64(a, b) == IF a < b THEN a ELSE b

\* the intersection over the sum of the areas
IoUOverSum(r1, r2) ==
    LET xA == maxFloat64(r1.X, r2.X)
        yA == maxFloat64(r1.Y, r2.Y)
        xB == minFloat64(r1.X + r1.Width, r2.X + r2.Width)
        yB == minFloat64(r1.Y + r1.Height, r2.Y + r2.Height)
        interArea == maxFloat64(0, xB - xA) * maxFloat64(0, yB - yA)
    IN IF interArea = 0 THEN <<0, 1>>
       ELSE <<interArea, r1.Width * r1.Height + r2.Width * r2.Height>>

\* the intersection over the area of the first rectangle
IoUOverFirst(r1, r2) ==
    LET xA == maxFloat64(r1.X, r2.X)
        yA == maxFloat64(r1.Y, r2.Y)
        xB == minFloat64(r1.X + r1.Width, r2.X + r2.Width)
        yB == minFloat64(r1.Y + r1.Height, r2.Y + r2.Height)
        interArea == maxFloat64(0, xB - xA) * maxFloat64(0, yB - yA)
    IN IF interArea = 0 THEN <<0, 1>>
       ELSE <<interArea, r1.Width * r1.Height>>

IoU(r1, r2) ==
    LET xA == maxFloat64(r1.X, r2.X)
        yA == maxFloat64(r1.Y, r2.Y)
        xB == minFloat64(r1.X + r1.Width, r2.X + r2.Width)
        yB == minFloat64(r1.Y + r1.Height, r2.Y + r2.Height)
        interArea == maxFloat64(0, xB - xA) * maxFloat64(0, yB - yA)
        r1Area == r1.Width * r1.Height
        r2Area == r2.Width * r2.Height
    IN IF interArea = 0 THEN RZero
       ELSE <<interArea, r1Area + r2Area - interArea>>

-----------------------------------------------------------------------------
(* The motion filter (github.com/LdDl/kalman-filter), an opaque collaborator.*)
(* Its state is the estimated centre (and size, for KalmanBBox).  Predict    *)
(* advances the centre by the constant control input; Update either rejects  *)
(* the measurement or takes it as the new estimate.                          *)

\* displacement of one Predict step
Drift == 1

KalmanNew(cx, cy, w, h) == [cx |-> cx, cy |-> cy, w |-> w, h |-> h]

KalmanPredict(kf) == [kf EXCEPT !.cx = @ + Drift]

KalmanUpdate(kf, cx, cy, w, h) == [cx |-> cx, cy |-> cy, w |-> w, h |-> h]

-----------------------------------------------------------------------------
(* simple_blob.go and blob_bbox.go: the two blob variants.  One record shape *)
(* carries both; a field the variant does not have stays at its zero value.  *)

DefaultMaxTrackLen == 150

ZeroPoint == Point(0, 0)
ZeroRect == Rectangle(0, 0, 0, 0)

NewSimpleBlob(id, currentBbox) ==
    LET centerX == currentBbox.X + currentBbox.Width \div 2
        centerY == currentBbox.Y + currentBbox.Height \div 2
        diagonal == ISqrt(currentBbox.Width * currentBbox.Width
                          + currentBbox.Height * currentBbox.Height)
    IN [variant |-> "simple",
        id |-> id,
        currentBBox |-> currentBbox,
        currentCenter |-> Point(centerX, centerY),
        predictedNextPosition |-> Point(0, 0),
        predictedBBox |-> ZeroRect,
        track |-> <<Point(centerX, centerY)>>,
        maxTrackLen |-> DefaultMaxTrackLen,
        active |-> FALSE,
        noMatchTimes |-> 0,
        diagonal |-> diagonal,
        tracker |-> KalmanNew(centerX, centerY, 0, 0)]

NewBlobBBox(id, currentBbox) ==
    LET centerX == currentBbox.X + currentBbox.Width \div 2
        centerY == currentBbox.Y + currentBbox.Height \div 2
        diagonal == ISqrt(currentBbox.Width * currentBbox.Width
                          + currentBbox.Height * currentBbox.Height)
    IN [variant |-> "bbox",
        id |-> id,
        currentBBox |-> currentBbox,
        currentCenter |-> ZeroPoint,
        predictedNextPosition |-> ZeroPoint,
        predictedBBox |-> Rectangle(currentBbox.X, currentBbox.Y,
                                    currentBbox.Width, currentBbox.Height),
        track |-> <<Point(centerX, centerY)>>,
        maxTrackLen |-> DefaultMaxTrackLen,
        active |-> FALSE,
        noMatchTimes |-> 0,
        diagonal |-> diagonal,
        tracker |-> KalmanNew(centerX, centerY, currentBbox.Width, currentBbox.Height)]

NewBlob(variant, id, currentBbox) ==
    IF variant = "simple" THEN NewSimpleBlob(id, currentBbox)
    ELSE NewBlobBBox(id, currentBbox)

Activate(blob) == [blob EXCEPT !.active = TRUE]

Deactivate(blob) == [blob EXCEPT !.active = FALSE]

GetID(blob) == blob.id

SetID(blob, newID) == [blob EXCEPT !.id = newID]

GetCenter(blob) ==
    IF blob.variant = "simple" THEN blob.currentCenter
    ELSE Point(blob.currentBBox.X + blob.currentBBox.Width \div 2,
               blob.currentBBox.Y + blob.currentBBox.Height \div 2)

GetBBox(blob) == blob.currentBBox

GetPredictedBBox(blob) ==
    IF blob.variant = "simple"
    THEN Rectangle(blob.predictedNextPosition.X - blob.currentBBox.Width \div 2,
                   blob.predictedNextPosition.Y - blob.currentBBox.Height \div 2,
                   blob.currentBBox.Width, blob.currentBBox.Height)
    ELSE blob.predictedBBox

GetDiagonal(blob) == blob.diagonal

GetTrack(blob) == blob.track

GetMaxTrackLen(blob) == blob.maxTrackLen

SetMaxTrackLen(blob, newMaxTrackLen) == [blob EXCEPT !.maxTrackLen = newMaxTrackLen]

GetNoMatchTimes(blob) == blob.noMatchTimes

IncNoMatch(blob) == [blob EXCEPT !.noMatchTimes = @ + 1]

ResetNoMatch(blob) == [blob EXCEPT !.noMatchTimes = 0]

DistanceTo(blob, otherBlob) == euclideanDistance(GetCenter(blob), GetCenter(otherBlob))

\* the prediction step left out
PredictNextPositionSkipped(blob) == blob

PredictNextPosition(blob) ==
    LET kf == KalmanPredict(blob.tracker)
    IN IF blob.variant = "simple"
       THEN [blob EXCEPT !.tracker = kf,
                         !.predictedNextPosition = Point(kf.cx, kf.cy)]
       ELSE [blob EXCEPT !.tracker = kf,
                         !.predictedBBox = Rectangle(kf.cx - kf.w \div 2, kf.cy - kf.h \div 2,
                                                     kf.w, kf.h)]

\* append to the history and drop the newest point when over capacity
AppendTrackDropNewest(track, pt, maxTrackLen) ==
    LET t == Append(track, pt)
    IN IF Len(t) > maxTrackLen THEN SubSeq(t, 1, Len(t) - 1) ELSE t

\* append to the history and drop the oldest point when over capacity
AppendTrack(track, pt, maxTrackLen) ==
    LET t == Append(track, pt)
    IN IF Len(t) > maxTrackLen THEN Tail(t) ELSE t

\* SimpleBlob.Update; rejected = the motion filter rejects the measurement.
\* Returns [blob, err].
SimpleBlobUpdate(blob, newBlob, rejected) ==
    LET b1 == [blob EXCEPT !.currentCenter = newBlob.currentCenter,
                           !.currentBBox = newBlob.currentBBox]
    IN IF rejected THEN [blob |-> b1, err |-> TRUE]
       ELSE LET kf == KalmanUpdate(b1.tracker, b1.currentCenter.X, b1.currentCenter.Y, 0, 0)
                oldX == b1.currentCenter.X
                oldY == b1.currentCenter.Y
                diffX == kf.cx - oldX
                diffY == kf.cy - oldY
                center == Point(kf.cx, kf.cy)
            IN [blob |-> [b1 EXCEPT
                            !.tracker = kf,
                            !.currentCenter = center,
                            !.currentBBox = [@ EXCEPT !.X = @ + diffX, !.Y = @ + diffY],
                            !.diagonal = newBlob.diagonal,
                            !.active = TRUE,
                            !.noMatchTimes = 0,
                            !.track = AppendTrack(b1.track, center, b1.maxTrackLen)],
                err |-> FALSE]

\* BlobBBox.Update.  Returns [blob, err].
BlobBBoxUpdate(blob, newBlob, rejected) ==
    LET newBBox == newBlob.currentBBox
        newCx == newBBox.X + newBBox.Width \div 2
        newCy == newBBox.Y + newBBox.Height \div 2
    IN IF rejected THEN [blob |-> blob, err |-> TRUE]
       ELSE LET kf == KalmanUpdate(blob.tracker, newCx, newCy, newBBox.Width, newBBox.Height)
            IN [blob |-> [blob EXCEPT
                            !.tracker = kf,
                            !.currentBBox = Rectangle(kf.cx - kf.w \div 2, kf.cy - kf.h \div 2,
                                                      kf.w, kf.h),
                            !.diagonal = ISqrt(kf.w * kf.w + kf.h * kf.h),
                            !.active = TRUE,
                            !.noMatchTimes = 0,
                            !.track = AppendTrack(blob.track, Point(kf.cx, kf.cy),
                                                  blob.maxTrackLen)],
                err |-> FALSE]

\* Update copying the measurement's id along with its geometry
UpdateCopiesID(blob, newBlob, rejected) ==
    LET u == IF blob.variant = "simple" THEN SimpleBlobUpdate(blob, newBlob, rejected)
             ELSE BlobBBoxUpdate(blob, newBlob, rejected)
    IN [u EXCEPT !.blob.id = newBlob.id]

Update(blob, newBlob, rejected) ==
    IF blob.variant = "simple" THEN SimpleBlobUpdate(blob, newBlob, rejected)
    ELSE BlobBBoxUpdate(blob, newBlob, rejected)

-----------------------------------------------------------------------------
(* distance_heap.go (distanceHeap) and container/heap over iouHeap: the same *)
(* binary heap, a min-heap by distance and a max-heap by score.  Indices are *)
(* 0-based as in the source; h is a sequence, element i is h[i + 1].         *)

\* the order turned round: the largest distance, the smallest score first
heapLessReversed(h, i, j, polarity) ==
    IF polarity = "min" THEN h[i + 1].distance > h[j + 1].distance
    ELSE RLess(h[i + 1].score, h[j + 1].score)

heapLess(h, i, j, polarity) ==
    IF polarity = "min" THEN h[i + 1].distance < h[j + 1].distance
    ELSE RLess(h[j + 1].score, h[i + 1].score)

heapSwap(h, i, j) == [h EXCEPT ![i + 1] = h[j + 1], ![j + 1] = h[i + 1]]

RECURSIVE heapUp(_, _, _)
heapUp(h, j, polarity) ==
    LET i == IF j = 0 THEN 0 ELSE (j - 1) \div 2
    IN IF i = j \/ ~heapLess(h, j, i, polarity) THEN h
       ELSE heapUp(heapSwap(h, i, j), i, polarity)

\* down looking at the left child only
RECURSIVE heapDownLeftChild(_, _, _, _)
heapDownLeftChild(h, i, n, polarity) ==
    LET j1 == 2 * i + 1
    IN IF j1 >= n \/ j1 < 0 THEN h
       ELSE IF ~heapLess(h, j1, i, polarity) THEN h
            ELSE heapDownLeftChild(heapSwap(h, i, j1), j1, n, polarity)

RECURSIVE heapDown(_, _, _, _)
heapDown(h, i, n, polarity) ==
    LET j1 == 2 * i + 1
    IN IF j1 >= n \/ j1 < 0 THEN h
       ELSE LET j2 == j1 + 1
                j == IF j2 < n /\ heapLess(h, j2, j1, polarity) THEN j2 ELSE j1
            IN IF ~heapLess(h, j, i, polarity) THEN h
               ELSE heapDown(heapSwap(h, i, j), j, n, polarity)

heapPush(h, x, polarity) == heapUp(Append(h, x), Len(h), polarity)

\* the end of Pop: the last element is the item, the rest the heap
heapCut(h1, n) == [item |-> h1[n + 1], heap |-> SubSeq(h1, 1, n)]

\* Pop: [item, heap]
heapPop(h, polarity) ==
    heapCut(heapDown(heapSwap(h, 0, Len(h) - 1), 0, Len(h) - 1, polarity), Len(h) - 1)

\* push the items of a sequence one after the other
RECURSIVE heapPushAll(_, _, _)
heapPushAll(h, items, polarity) ==
    IF items = <<>> THEN h
    ELSE heapPushAll(heapPush(h, Head(items), polarity), Tail(items), polarity)

-----------------------------------------------------------------------------
(* The record of one call: what MatchObjects did, in program order.          *)
(* op: "predict", "score", "best", "pop", "update", "updatefail", "setid",    *)
(* "reset", "register", "inc", "delete", "activate", "drop"; id: the track   *)
(* (store key); det: the detection's index in the frame, 0 if none; geom: the *)
(* centre a prediction produced, or the track centre a score was computed    *)
(* from; n: the blob's noMatchTimes after an "inc", at a "delete".           *)

Event(op, id, det, geom) == [op |-> op, id |-> id, det |-> det, geom |-> geom, n |-> 0]

\* the centre the motion filter's last Predict produced
PredictedState(blob) == [X |-> blob.tracker.cx, Y |-> blob.tracker.cy]

RectCenter(r) == Point(r.X + r.Width \div 2, r.Y + r.Height \div 2)

\* detections constructed with identifiers handed out before
ReusedDets(variant, rects, first) ==
    [i \in 1..Len(rects) |-> NewBlob(variant, i, rects[i])]

\* the detections a caller constructs for one frame: fresh blobs, fresh ids
FreshDets(variant, rects, first) ==
    [i \in 1..Len(rects) |-> NewBlob(variant, first + i - 1, rects[i])]

\* the detections handed to a tracker: constructed, then given the caller's
\* history capacity
FrameDets(c, rects, first) ==
    [i \in 1..Len(rects) |->
        SetMaxTrackLen(FreshDets(c.variant, rects, first)[i], c.maxTrackLen)]

\* one event per key of ids, in ascending key order
PredictEvents(ids, objs) ==
    LET s == SortedSeq(ids)
    IN [i \in 1..Len(s) |-> Event("predict", s[i], 0, PredictedState(objs[s[i]]))]

\* "inc" or "delete" events, with the blob's noMatchTimes
CountEvents(ids, op, objs) ==
    LET s == SortedSeq(ids)
    IN [i \in 1..Len(s) |->
          [Event(op, s[i], 0, [X |-> 0, Y |-> 0]) EXCEPT !.n = objs[s[i]].noMatchTimes]]

\* the id each detection's scan ended with
BestEvents(ids) == [i \in 1..Len(ids) |-> Event("best", ids[i], i, [X |-> 0, Y |-> 0])]

RECURSIVE Concat(_)
Concat(ss) == IF ss = <<>> THEN <<>> ELSE Head(ss) \o Concat(Tail(ss))

\* the score events of the scans: every detection against every stored
\* track; geoms[k] is the centre track k was scored from
ScoreEvents(n, geoms) ==
    LET s == SortedSeq(DOMAIN geoms)
    IN Concat([i \in 1..n |-> [j \in 1..Len(s) |-> Event("score", s[j], i, geoms[s[j]])]])

-----------------------------------------------------------------------------
(* SimpleTracker.MatchObjects (simple_tracker.go)                            *)

\* the claim on a track is not recorded
ReserveNothing(reserved, minID) == reserved

\* reservedObjects[minID] = struct{}{}
Reserve(reserved, minID) == reserved \cup {minID}

\* eviction one miss late
OverBudgetLate(blob, maxNoMatch) == GetNoMatchTimes(blob) > maxNoMatch + 1

\* eviction as soon as the miss count reaches the budget
OverBudgetAtBudget(blob, maxNoMatch) == GetNoMatchTimes(blob) >= maxNoMatch

\* the eviction test of SimpleTracker and IoUTracker
OverBudget(blob, maxNoMatch) == GetNoMatchTimes(blob) > maxNoMatch

\* the per-detection scan: minimum current-centre distance over the store
SimpleScanDistance(objs, newObject) ==
    IF DOMAIN objs = {} THEN MaxFloat64
    ELSE LET ds == {minFloat64(DistanceTo(newObject, objs[k]), DistanceTo(newObject, objs[k])) :
                        k \in DOMAIN objs}
         IN CHOOSE d \in ds : \A e \in ds : d <= e

\* the ids the scan can end with: the first track of minimum distance in the
\* map's iteration order, which Go leaves unspecified
SimpleScanIDs(objs, newObject) ==
    IF DOMAIN objs = {} THEN {NilID}
    ELSE {k \in DOMAIN objs :
            DistanceTo(newObject, objs[k]) = SimpleScanDistance(objs, newObject)}

\* the gate with the whole diagonal of the detection as its first bound
SimpleGateFullDiagonal(minDistance, underlyingBlob, minDistThreshold) ==
    minDistance < GetDiagonal(underlyingBlob) \/ minDistance < minDistThreshold

\* the gate letting every distance to a stored track through
SimpleGateAnyDistance(minDistance, underlyingBlob, minDistThreshold) ==
    minDistance < MaxFloat64

\* the gate of a tracker built with an infinite minDistThreshold
SimpleGateInfiniteThreshold(minDistance, underlyingBlob, minDistThreshold) ==
    2 * minDistance < underlyingBlob.diagonal \/ minDistance <= MaxFloat64

SimpleGate(minDistance, underlyingBlob, minDistThreshold) ==
    2 * minDistance < underlyingBlob.diagonal \/ minDistance < minDistThreshold

\* blobsToRegister[underlyingBlob.GetID()] = underlyingBlob, as key -> index
ToRegister(toRegister, blob, d) ==
    [k \in DOMAIN toRegister \cup {GetID(blob)} |->
        IF k = GetID(blob) THEN d ELSE toRegister[k]]

\* the loop body going on after a failed Update, the error dropped
SimpleUpdatedErrorDropped(st1, minID, d, u) ==
    IF u.err
    THEN [st1 EXCEPT !.objs = [@ EXCEPT ![minID] = u.blob],
                     !.nUpd = @ + 1,
                     !.log = Append(@, Event("updatefail", minID, d, ZeroPoint))]
    ELSE [st1 EXCEPT !.objs = [@ EXCEPT ![minID] = u.blob],
                     !.nUpd = @ + 1,
                     !.dets = [@ EXCEPT ![d] = SetID(@, minID)],
                     !.reserved = Reserve(@, minID),
                     !.log = @ \o <<Event("update", minID, d, ZeroPoint),
                                    Event("setid", minID, d, ZeroPoint)>>]

\* the loop body after Update on track minID returned u
SimpleUpdated(st1, minID, d, u) ==
    IF u.err
    THEN [st1 EXCEPT !.objs = [@ EXCEPT ![minID] = u.blob],
                     !.nUpd = @ + 1,
                     !.log = Append(@, Event("updatefail", minID, d, ZeroPoint)),
                     !.ret = "error"]
    ELSE [st1 EXCEPT !.objs = [@ EXCEPT ![minID] = u.blob],
                     !.nUpd = @ + 1,
                     !.dets = [@ EXCEPT ![d] = SetID(@, minID)],
                     !.reserved = Reserve(@, minID),
                     !.log = @ \o <<Event("update", minID, d, ZeroPoint),
                                    Event("setid", minID, d, ZeroPoint)>>]

\* the loop body for the popped item; st1 is the state with the item popped
SimpleResolveItem(st1, blobPoped) ==
    LET minDistance == blobPoped.distance
        minID == blobPoped.id
        d == blobPoped.underlying
    IN IF minID \in st1.reserved
       THEN [st1 EXCEPT !.toRegister = ToRegister(@, st1.dets[d], d)]
       ELSE IF SimpleGate(minDistance, st1.dets[d], st1.minDistThreshold)
       THEN IF minID \in DOMAIN st1.objs
            THEN SimpleUpdated(st1, minID, d,
                               Update(st1.objs[minID], st1.dets[d], st1.nUpd + 1 = st1.rej))
            ELSE [st1 EXCEPT !.ret = "panic"]
       ELSE [st1 EXCEPT !.toRegister = ToRegister(@, st1.dets[d], d)]

\* priorityQueue.Pop() and the loop body; p is what Pop returns
SimplePopped(st, p) ==
    SimpleResolveItem(
        [st EXCEPT !.heap = p.heap,
                   !.log = Append(@, Event("pop", p.item.id, p.item.underlying, ZeroPoint))],
        p.item)

\* the loop that empties the priority queue
RECURSIVE SimpleResolve(_)
SimpleResolve(st) ==
    IF st.ret # "nil" \/ st.heap = <<>> THEN st
    ELSE SimpleResolve(SimplePopped(st, heapPop(st.heap, "min")))

\* the store with the blobs of toRegister (key -> detection index) added
Registered(objs, toRegister, detBlobs) ==
    [k \in DOMAIN objs \cup DOMAIN toRegister |->
        IF k \in DOMAIN toRegister THEN detBlobs[toRegister[k]] ELSE objs[k]]

RegisterEvents(toRegister) ==
    LET s == SortedSeq(DOMAIN toRegister)
    IN [i \in 1..Len(s) |-> Event("register", s[i], toRegister[s[i]], ZeroPoint)]

\* the clean-up loop: IncNoMatch on every stored blob, then delete over budget
SimpleCleanUp(objs, maxNoMatch) ==
    LET inc == [k \in DOMAIN objs |-> IncNoMatch(objs[k])]
        keep == {k \in DOMAIN inc : ~OverBudget(inc[k], maxNoMatch)}
    IN [k \in keep |-> inc[k]]

\* IncNoMatch on every stored blob
IncAll(objs) == [k \in DOMAIN objs |-> IncNoMatch(objs[k])]

\* the result of a call that got through its loops: reg is the store after
\* registration, final the store after the clean-up
SimpleFinish(st, reg, final) ==
    [objs |-> final,
     dets |-> st.dets,
     ret |-> "nil",
     log |-> st.log \o RegisterEvents(st.toRegister)
             \o CountEvents(DOMAIN reg, "inc", IncAll(reg))
             \o CountEvents(DOMAIN reg \ DOMAIN final, "delete", IncAll(reg)),
     nUpd |-> st.nUpd]

\* registration done, the clean-up loop
SimpleRegistered(st, reg, c) == SimpleFinish(st, reg, SimpleCleanUp(reg, c.maxNoMatch))

\* what follows the loop over the priority queue
SimpleResolved(st, c) ==
    IF st.ret # "nil"
    THEN [objs |-> st.objs, dets |-> st.dets, ret |-> st.ret, log |-> st.log,
          nUpd |-> st.nUpd]
    ELSE SimpleRegistered(st, Registered(st.objs, st.toRegister, st.dets), c)

\* the entries pushed on the priority queue, one per detection
SimpleItems(predicted, newObjects, mins) ==
    [i \in 1..Len(newObjects) |->
        [underlying |-> i,
         distance |-> SimpleScanDistance(predicted, newObjects[i]),
         id |-> mins[i]]]

\* the call after the prediction loop
SimplePredicted(predicted, newObjects, mins, rej, c) ==
    SimpleResolved(
        SimpleResolve([heap |-> heapPushAll(<<>>, SimpleItems(predicted, newObjects, mins),
                                            "min"),
                       objs |-> predicted,
                       dets |-> newObjects,
                       reserved |-> {},
                       toRegister |-> <<>>,
                       nUpd |-> 0,
                       rej |-> rej,
                       minDistThreshold |-> c.minDistThreshold,
                       log |-> PredictEvents(DOMAIN predicted, predicted)
                               \o ScoreEvents(Len(newObjects),
                                               [k \in DOMAIN predicted |->
                                                   GetCenter(predicted[k])])
                               \o BestEvents(mins),
                       ret |-> "nil"]),
        c)

\* The whole call.  mins[i] is the id detection i's scan ended with, rej the
\* ordinal of the Update call the motion filter rejects (0: none).
\* Returns [objs, dets, ret, log, nUpd].
SimpleTrackerMatchObjects(objs0, newObjects, mins, rej, c) ==
    SimplePredicted([k \in DOMAIN objs0 |-> PredictNextPosition(Deactivate(objs0[k]))],
                    newObjects, mins, rej, c)

-----------------------------------------------------------------------------
(* IoUTracker.MatchObjects (iou_tracker.go)                                  *)

\* distanceScore = 1 / (1 + 0.01 * distance)
IoUDistanceScore(distance) == <<100, 100 + distance>>

\* the hybrid score of one detection against one stored track
IoUCombinedScore(newObj, object) ==
    LET predictedBBox == GetPredictedBBox(object)
        iouValue == IoU(GetBBox(newObj), predictedBBox)
        predictedCenter == Point(predictedBBox.X + predictedBBox.Width \div 2,
                                 predictedBBox.Y + predictedBBox.Height \div 2)
        distance == euclideanDistance(predictedCenter, GetCenter(newObj))
        distanceScore == IoUDistanceScore(distance)
    IN IF RLess(<<5, 100>>, iouValue)
       THEN \* iouValue * 0.8 + distanceScore * 0.2
            <<4 * iouValue[1] * distanceScore[2] + distanceScore[1] * iouValue[2],
              5 * iouValue[2] * distanceScore[2]>>
       ELSE \* distanceScore * 0.5
            <<distanceScore[1], 2 * distanceScore[2]>>

\* the best score the scan of one detection ends with (0.0 on an empty store)
IoUScanScore(objs, newObj) ==
    LET ss == {IoUCombinedScore(newObj, objs[k]) : k \in DOMAIN objs} \cup {RZero}
    IN CHOOSE s \in ss : \A t \in ss : RLeq(t, s)

\* the ids the scan can end with: the first track of maximum score in the
\* map's iteration order; the zero id when no score exceeds 0.0
IoUScanIDs(objs, newObj) ==
    LET best == IoUScanScore(objs, newObj)
        ids == {k \in DOMAIN objs : REq(IoUCombinedScore(newObj, objs[k]), best)}
    IN IF ids = {} \/ REq(best, RZero) THEN {NilID} ELSE ids

\* the loop body after Update on the predicted track returned u
IoUUpdated(st1, minID, d, existingObj, u) ==
    IF u.err
    THEN [st1 EXCEPT !.objs = [@ EXCEPT ![minID] = u.blob],
                     !.nUpd = @ + 1,
                     !.log = @ \o <<Event("predict", minID, 0, PredictedState(existingObj)),
                                    Event("updatefail", minID, d, ZeroPoint)>>,
                     !.ret = "error"]
    ELSE [st1 EXCEPT !.objs = [@ EXCEPT ![minID] = ResetNoMatch(u.blob)],
                     !.nUpd = @ + 1,
                     !.dets = [@ EXCEPT ![d] = SetID(@, minID)],
                     !.reserved = Reserve(@, minID),
                     !.log = @ \o <<Event("predict", minID, 0, PredictedState(existingObj)),
                                    Event("update", minID, d, ZeroPoint),
                                    Event("reset", minID, 0, ZeroPoint),
                                    Event("setid", minID, d, ZeroPoint)>>]

\* existingObj.PredictNextPosition(), then existingObj.Update(blob)
IoUPredicted(st1, minID, d, existingObj) ==
    IoUUpdated(st1, minID, d, existingObj,
               Update(existingObj, st1.dets[d], st1.nUpd + 1 = st1.rej))

\* the loop body for the popped item; st1 is the state with the item popped
IoUResolveItem(st1, item) ==
    LET maxScore == item.score
        minID == item.minID
        d == item.blob
    IN IF minID \in st1.reserved
       THEN [st1 EXCEPT !.toRegister = ToRegister(@, st1.dets[d], d)]
       ELSE IF RLess(st1.iouThreshold, maxScore)
       THEN IF minID \in DOMAIN st1.objs
            THEN IoUPredicted(st1, minID, d, PredictNextPosition(st1.objs[minID]))
            ELSE \* the track is not in the store: the detection is dropped
                 [st1 EXCEPT !.log = Append(@, Event("drop", minID, d, ZeroPoint))]
       ELSE [st1 EXCEPT !.toRegister = ToRegister(@, st1.dets[d], d)]

\* heap.Pop(pq) and the loop body; p is what Pop returns
IoUPopped(st, p) ==
    IoUResolveItem(
        [st EXCEPT !.heap = p.heap,
                   !.log = Append(@, Event("pop", p.item.minID, p.item.blob, ZeroPoint))],
        p.item)

\* the loop that empties the priority queue
RECURSIVE IoUResolve(_)
IoUResolve(st) ==
    IF st.ret # "nil" \/ st.heap = <<>> THEN st
    ELSE IoUResolve(IoUPopped(st, heapPop(st.heap, "max")))

\* a miss counted on every stored blob, reserved or not
IoUUnmatchedAll(objs, reserved) ==
    [k \in DOMAIN objs |->
        IF k \in reserved THEN IncNoMatch(objs[k])
        ELSE IncNoMatch(PredictNextPosition(objs[k]))]

\* the unmatched pass predicting every stored blob, reserved or not
IoUUnmatchedPredictAll(objs, reserved) ==
    [k \in DOMAIN objs |->
        IF k \in reserved THEN PredictNextPosition(objs[k])
        ELSE IncNoMatch(PredictNextPosition(objs[k]))]

\* predict and count a miss on every stored blob no detection reserved
IoUUnmatched(objs, reserved) ==
    [k \in DOMAIN objs |->
        IF k \in reserved THEN objs[k] ELSE IncNoMatch(PredictNextPosition(objs[k]))]

IoUCleanUp(objs, maxNoMatch) ==
    [k \in {j \in DOMAIN objs : ~OverBudget(objs[j], maxNoMatch)} |-> objs[k]]

\* predict and inc events of the unmatched blobs, key by key
RECURSIVE IoUUnmatchedEvents(_, _)
IoUUnmatchedEvents(keys, objs) ==
    IF keys = <<>> THEN <<>>
    ELSE <<Event("predict", Head(keys), 0, PredictedState(objs[Head(keys)])),
           [Event("inc", Head(keys), 0, ZeroPoint) EXCEPT !.n = objs[Head(keys)].noMatchTimes]>>
         \o IoUUnmatchedEvents(Tail(keys), objs)

PredictedCenterOf(blob) == RectCenter(GetPredictedBBox(blob))

\* the result of a call that got through its loops: reg is the store after
\* registration, unm after the loop over unmatched blobs, final after clean-up
IoUFinish(st, reg, unm, final) ==
    [objs |-> final,
     dets |-> st.dets,
     ret |-> "nil",
     log |-> st.log \o RegisterEvents(st.toRegister)
             \o IoUUnmatchedEvents(SortedSeq(DOMAIN reg \ st.reserved), unm)
             \o CountEvents(DOMAIN unm \ DOMAIN final, "delete", unm),
     nUpd |-> st.nUpd]

\* the loop over unmatched blobs done, the clean-up loop
IoUCounted(st, reg, unm, c) == IoUFinish(st, reg, unm, IoUCleanUp(unm, c.maxNoMatch))

\* registration done, the loop over unmatched blobs
IoURegistered(st, reg, c) == IoUCounted(st, reg, IoUUnmatched(reg, st.reserved), c)

\* what follows the loop over the priority queue
IoUResolved(st, c) ==
    IF st.ret # "nil"
    THEN [objs |-> st.objs, dets |-> st.dets, ret |-> st.ret, log |-> st.log,
          nUpd |-> st.nUpd]
    ELSE IoURegistered(st, Registered(st.objs, st.toRegister, st.dets), c)

\* the entries pushed on the priority queue, one per detection
IoUItems(objs, newObjects, maxs) ==
    [i \in 1..Len(newObjects) |->
        [score |-> IoUScanScore(objs, newObjects[i]), minID |-> maxs[i], blob |-> i]]

\* the call after the deactivation loop
IoUDeactivated(deactivated, newObjects, maxs, rej, c) ==
    IoUResolved(
        IoUResolve([heap |-> heapPushAll(<<>>, IoUItems(deactivated, newObjects, maxs), "max"),
                    objs |-> deactivated,
                    dets |-> newObjects,
                    reserved |-> {},
                    toRegister |-> <<>>,
                    nUpd |-> 0,
                    rej |-> rej,
                    iouThreshold |-> c.iouThreshold,
                    log |-> ScoreEvents(Len(newObjects),
                                        [k \in DOMAIN deactivated |->
                                            PredictedCenterOf(deactivated[k])])
                            \o BestEvents(maxs),
                    ret |-> "nil"]),
        c)

\* The whole call.  maxs[i] is the id detection i's scan ended with.
IoUTrackerMatchObjects(objs0, newObjects, maxs, rej, c) ==
    IoUDeactivated([k \in DOMAIN objs0 |-> Deactivate(objs0[k])], newObjects, maxs, rej, c)

-----------------------------------------------------------------------------
(* ByteTracker.MatchObjects (bytetrack.go).  Rows and columns of the IoU     *)
(* matrix, and the indices of detections, are 1-based here.                  *)

MatchingAlgorithmHungarian == 0
MatchingAlgorithmGreedy == 1

RAdd(a, b) == <<a[1] * b[2] + b[1] * a[2], a[2] * b[2]>>

maxInt(a, b) == IF a > b THEN a ELSE b

\* the elements of seq that satisfy keep, in order
RECURSIVE FilterSeq(_, _)
FilterSeq(seq, keepSet) ==
    IF seq = <<>> THEN <<>>
    ELSE IF Head(seq) \in keepSet THEN <<Head(seq)>> \o FilterSeq(Tail(seq), keepSet)
    ELSE FilterSeq(Tail(seq), keepSet)

\* all orders in which a map with these keys can be iterated
Orders(S) == {f \in [1..Cardinality(S) -> S] : \A i, j \in DOMAIN f : f[i] = f[j] => i = j}

\* trackBBoxes: sequence of [ID, BBox]
createIoUMatrix(trackBBoxes, detectionIndices, allDetections) ==
    [i \in 1..Len(trackBBoxes) |->
        [j \in 1..Len(detectionIndices) |->
            IoU(trackBBoxes[i].BBox, GetBBox(allDetections[detectionIndices[j]]))]]

\* the row loop never marking a column as matched
RECURSIVE GreedyRowsReuseColumns(_, _, _, _, _, _)
GreedyRowsReuseColumns(iouMatrix, i, numTracks, numDets, matchedCols, minIoU) ==
    IF i > numTracks THEN <<>>
    ELSE LET cand == {j \in 1..numDets : RLeq(minIoU, iouMatrix[i][j])}
             best == {j \in cand : /\ \A k \in cand : RLeq(iouMatrix[i][k], iouMatrix[i][j])
                                   /\ \A k \in cand : k < j => RLess(iouMatrix[i][k], iouMatrix[i][j])}
         IN IF best = {}
            THEN GreedyRowsReuseColumns(iouMatrix, i + 1, numTracks, numDets, matchedCols, minIoU)
            ELSE LET j == CHOOSE x \in best : TRUE
                 IN <<<<i, j>>>> \o GreedyRowsReuseColumns(iouMatrix, i + 1, numTracks, numDets,
                                                          matchedCols, minIoU)

\* the row loop of performGreedyMatching, from row i on
RECURSIVE GreedyRows(_, _, _, _, _, _)
GreedyRows(iouMatrix, i, numTracks, numDets, matchedCols, minIoU) ==
    IF i > numTracks THEN <<>>
    ELSE LET cand == {j \in 1..numDets : j \notin matchedCols /\ RLeq(minIoU, iouMatrix[i][j])}
             \* the first column, in index order, that no later candidate beats
             best == {j \in cand : /\ \A k \in cand : RLeq(iouMatrix[i][k], iouMatrix[i][j])
                                   /\ \A k \in cand : k < j => RLess(iouMatrix[i][k], iouMatrix[i][j])}
         IN IF best = {}
            THEN GreedyRows(iouMatrix, i + 1, numTracks, numDets, matchedCols, minIoU)
            ELSE LET j == CHOOSE x \in best : TRUE
                 IN <<<<i, j>>>> \o GreedyRows(iouMatrix, i + 1, numTracks, numDets,
                                              matchedCols \cup {j}, minIoU)

performGreedyMatching(iouMatrix, trackBBoxes, detectionIndices, minIoU) ==
    IF Len(trackBBoxes) = 0 \/ Len(detectionIndices) = 0 THEN <<>>
    ELSE GreedyRows(iouMatrix, 1, Len(trackBBoxes), Len(detectionIndices), {}, minIoU)

RECURSIVE RSum(_, _, _)
RSum(m, f, i) == IF i = 0 THEN RZero ELSE RAdd(m[i][f[i]], RSum(m, f, i - 1))

\* hungarian.SolveMax on a square matrix: the assignments (row -> column) of
\* maximum total value; the solver returns one of them
SolveMax(m) ==
    LET n == Len(m)
        perms == {f \in [1..n -> 1..n] : \A a, b \in 1..n : f[a] = f[b] => a = b}
    IN {f \in perms : \A g \in perms : RLeq(RSum(m, g, n), RSum(m, f, n))}

\* the matrix padded to square with zeros
PaddedMatrix(iouMatrix, numTracks, numDetections) ==
    LET paddedSize == maxInt(numTracks, numDetections)
    IN [i \in 1..paddedSize |->
          [j \in 1..paddedSize |->
              IF i <= numTracks /\ j <= numDetections THEN iouMatrix[i][j] ELSE RZero]]

\* the pairs of an assignment with the indices beyond the real bounds moved
\* onto the last real row and column
AssignmentMatchesClamped(f, actualNumTracks, actualNumDetections) ==
    [k \in 1..Len(f) |->
        <<IF k <= actualNumTracks THEN k ELSE actualNumTracks,
          IF f[k] <= actualNumDetections THEN f[k] ELSE actualNumDetections>>]

\* the pairs of an assignment that lie within the real bounds, by row
AssignmentMatches(f, actualNumTracks, actualNumDetections) ==
    LET rows == SortedSeq({i \in DOMAIN f : i <= actualNumTracks /\ f[i] <= actualNumDetections})
    IN [k \in 1..Len(rows) |-> <<rows[k], f[rows[k]]>>]

\* performMatching: the set of match lists the stage can go on with
performMatching(iouMatrix, trackBBoxes, detectionIndices, algorithm, minIoU) ==
    IF algorithm = MatchingAlgorithmHungarian
    THEN IF Len(trackBBoxes) = 0 \/ Len(detectionIndices) = 0 THEN {<<>>}
         ELSE LET numTracks == Len(trackBBoxes)
                  numDetections == Len(detectionIndices)
                  paddedMatrix == PaddedMatrix(iouMatrix, numTracks, numDetections)
              IN {AssignmentMatches(f, numTracks, numDetections) : f \in SolveMax(paddedMatrix)}
    ELSE {performGreedyMatching(iouMatrix, trackBBoxes, detectionIndices, minIoU)}

\* st: [objs, dets, matchedTracks, matchedDetections, nUpd, rej, log, ret]
\* the gate of processMatches with a floor of zero
MatchAcceptedFromZero(iouVal, minIoU) == RLeq(RZero, iouVal)

\* the gate of processMatches: iouVal >= bt.minIoU
MatchAccepted(iouVal, minIoU) == RLeq(minIoU, iouVal)

RECURSIVE processMatches(_, _, _, _, _, _)
processMatches(st, matches, trackBBoxes, detectionIndices, iouMatrix, minIoU) ==
    IF st.ret # "nil" \/ matches = <<>> THEN st
    ELSE
    LET match == Head(matches)
        trackIdxInStage == match[1]
        detIdxInStage == match[2]
        iouVal == iouMatrix[trackIdxInStage][detIdxInStage]
        trackID == trackBBoxes[trackIdxInStage].ID
        originalDetIdx == detectionIndices[detIdxInStage]
    IN IF MatchAccepted(iouVal, minIoU) /\ trackID \in DOMAIN st.objs
       THEN LET u == Update(st.objs[trackID], st.dets[originalDetIdx], st.nUpd + 1 = st.rej)
            IN IF u.err
               THEN [st EXCEPT !.objs = [@ EXCEPT ![trackID] = u.blob],
                               !.nUpd = @ + 1,
                               !.log = Append(@, Event("updatefail", trackID, originalDetIdx,
                                                       ZeroPoint)),
                               !.ret = "error"]
               ELSE processMatches(
                        [st EXCEPT !.objs = [@ EXCEPT ![trackID] = ResetNoMatch(u.blob)],
                                   !.nUpd = @ + 1,
                                   !.matchedTracks = @ \cup {trackID},
                                   !.matchedDetections = @ \cup {originalDetIdx},
                                   !.log = @ \o <<Event("update", trackID, originalDetIdx, ZeroPoint),
                                                  Event("reset", trackID, 0, ZeroPoint)>>],
                        Tail(matches), trackBBoxes, detectionIndices, iouMatrix, minIoU)
       ELSE processMatches(st, Tail(matches), trackBBoxes, detectionIndices, iouMatrix, minIoU)

\* one association stage: the states it can end in
ByteStage(st, trackIDs, detectionIndices, c) ==
    IF st.ret # "nil" \/ Len(trackIDs) = 0 \/ Len(detectionIndices) = 0 THEN {st}
    ELSE LET trackBBoxes == [i \in 1..Len(trackIDs) |->
                                [ID |-> trackIDs[i], BBox |-> GetPredictedBBox(st.objs[trackIDs[i]])]]
             iouMatrix == createIoUMatrix(trackBBoxes, detectionIndices, st.dets)
             scores == Concat([i \in 1..Len(trackIDs) |->
                          [j \in 1..Len(detectionIndices) |->
                              Event("score", trackIDs[i], detectionIndices[j],
                                    RectCenter(trackBBoxes[i].BBox))]])
             st1 == [st EXCEPT !.log = @ \o scores]
         IN {processMatches(st1, matches, trackBBoxes, detectionIndices, iouMatrix, c.minIoU) :
                matches \in performMatching(iouMatrix, trackBBoxes, detectionIndices,
                                            c.algorithm, c.minIoU)}

\* eviction only once the miss count exceeds maxDisappeared
ByteOverBudgetStrict(blob, maxDisappeared) == GetNoMatchTimes(blob) > maxDisappeared

\* the eviction test of ByteTracker
ByteOverBudget(blob, maxDisappeared) == GetNoMatchTimes(blob) >= maxDisappeared

\* GetActiveTracks: the stored tracks below the miss budget, as the set of
\* their blobs (the slice comes in the order the store is iterated in)
GetActiveTracks(objs, maxDisappeared) ==
    {objs[k] : k \in {j \in DOMAIN objs : GetNoMatchTimes(objs[j]) < maxDisappeared}}

\* the high tier starting at lowThresh
IsHighConfidenceFromLow(conf, c) == RLeq(c.lowThresh, conf)

\* the confidence tiers
IsHighConfidence(conf, c) == RLeq(c.highThresh, conf)

\* the low tier without its floor
IsLowConfidenceNoFloor(conf, c) == RLess(conf, c.highThresh)

IsLowConfidence(conf, c) == RLess(conf, c.highThresh) /\ RLeq(c.lowThresh, conf)

\* steps 3 to 5: new tracks, miss counts, eviction
ByteFinish(st, highDetectionIndices, c) ==
    IF st.ret # "nil"
    THEN [objs |-> st.objs, dets |-> st.dets, ret |-> st.ret, log |-> st.log, nUpd |-> st.nUpd]
    ELSE
    LET newIdx == FilterSeq(highDetectionIndices,
                            Range(highDetectionIndices) \ st.matchedDetections)
        dets1 == [i \in DOMAIN st.dets |->
                    IF i \in Range(newIdx) THEN Activate(st.dets[i]) ELSE st.dets[i]]
        toRegister == [k \in {GetID(dets1[i]) : i \in Range(newIdx)} |->
                          CHOOSE i \in Range(newIdx) : GetID(dets1[i]) = k]
        reg == Registered(st.objs, toRegister, dets1)
        unmatched == DOMAIN reg \ st.matchedTracks
        inc == [k \in DOMAIN reg |-> IF k \in unmatched THEN IncNoMatch(reg[k]) ELSE reg[k]]
        final == [k \in {j \in DOMAIN inc : ~ByteOverBudget(inc[j], c.maxDisappeared)} |->
                    inc[k]]
    IN [objs |-> final,
        dets |-> dets1,
        ret |-> "nil",
        log |-> st.log
                \o [i \in 1..Len(newIdx) |-> Event("activate", GetID(dets1[newIdx[i]]), newIdx[i],
                                                   ZeroPoint)]
                \o RegisterEvents(toRegister)
                \o CountEvents(unmatched, "inc", inc)
                \o CountEvents(DOMAIN inc \ DOMAIN final, "delete", inc),
        nUpd |-> st.nUpd]

\* The call from the prediction step on (the lengths are equal): the set of
\* results it can end with.  order is the order in which the store is
\* iterated when the active tracks are collected.
\* stage 2 taking every active track, matched in stage 1 or not
UnmatchedTracksAll(activeTrackIDs, matchedTracks) == activeTrackIDs

\* the active tracks stage 1 left unmatched, in the order of activeTrackIDs
UnmatchedTracks(activeTrackIDs, matchedTracks) ==
    FilterSeq(activeTrackIDs, Range(activeTrackIDs) \ matchedTracks)

ByteTrackerMatch(objs0, detections, confidences, order, rej, c) ==
    LET predicted == [k \in DOMAIN objs0 |-> PredictNextPosition(objs0[k])]
        log1 == PredictEvents(DOMAIN objs0, predicted)
        activeTrackIDs == FilterSeq(order, {k \in DOMAIN predicted :
                                GetNoMatchTimes(predicted[k]) < c.maxDisappeared})
        n == Len(confidences)
        highDetectionIndices == SortedSeq({i \in 1..n : IsHighConfidence(confidences[i], c)})
        st0 == [objs |-> predicted, dets |-> detections,
                matchedTracks |-> {}, matchedDetections |-> {},
                nUpd |-> 0, rej |-> rej, log |-> log1, ret |-> "nil"]
        stage2(st1) ==
            LET unmatchedTrackIDs == UnmatchedTracks(activeTrackIDs, st1.matchedTracks)
                lowDetectionIndices ==
                    SortedSeq({i \in 1..n : /\ i \notin st1.matchedDetections
                                            /\ IsLowConfidence(confidences[i], c)})
            IN ByteStage(st1, unmatchedTrackIDs, lowDetectionIndices, c)
    IN {ByteFinish(st2, highDetectionIndices, c) :
            st2 \in UNION {stage2(st1) : st1 \in ByteStage(st0, activeTrackIDs,
                                                          highDetectionIndices, c)}}

\* the length check made after the prediction step
ByteLengthMismatchLate(objs0, detections) ==
    [objs |-> [k \in DOMAIN objs0 |-> PredictNextPosition(objs0[k])],
     dets |-> detections, ret |-> "error", log |-> <<>>, nUpd |-> 0]

\* the early return on len(detections) # len(confidences)
ByteLengthMismatch(objs0, detections) ==
    [objs |-> objs0, dets |-> detections, ret |-> "error", log |-> <<>>, nUpd |-> 0]

\* The whole call: the set of results it can end with.
ByteTrackerMatchObjects(objs0, detections, confidences, order, rej, c) ==
    IF Len(detections) # Len(confidences)
    THEN {ByteLengthMismatch(objs0, detections)}
    ELSE ByteTrackerMatch(objs0, detections, confidences, order, rej, c)

-----------------------------------------------------------------------------
(* Inputs and configurations *)

\* the boxes detections are drawn from: 6 wide, 8 high, on one line
DetRects == {Rectangle(0, 0, 6, 8), Rectangle(4, 0, 6, 8), Rectangle(12, 0, 6, 8)}

\* the boxes handed to SimpleTracker: those of DetRects and one of twice the
\* size, diagonal 20, centred 3, 1 and 9 away from them
SimpleDetRects == DetRects \cup {Rectangle(0, -4, 12, 16)}

Variants == {"simple", "bbox"}

\* NewNewSimpleTracker(minDistThreshold, maxNoMatch), over either blob variant;
\* maxTrackLen, here and in the other configurations, is the history capacity
\* the caller gives its detection blobs with SetMaxTrackLen
SimpleConfigs ==
    {[variant |-> "simple", minDistThreshold |-> 3, maxNoMatch |-> 1, maxTrackLen |-> 2],
     [variant |-> "bbox", minDistThreshold |-> 10, maxNoMatch |-> 2,
      maxTrackLen |-> DefaultMaxTrackLen]}

\* NewIoUTracker(maxNoMatch, iouThreshold)
IoUConfigs ==
    {[variant |-> "simple", iouThreshold |-> <<0, 1>>, maxNoMatch |-> 1, maxTrackLen |-> 2],
     [variant |-> "bbox", iouThreshold |-> <<3, 10>>, maxNoMatch |-> 2,
      maxTrackLen |-> DefaultMaxTrackLen],
     [variant |-> "bbox", iouThreshold |-> <<45, 100>>, maxNoMatch |-> 1,
      maxTrackLen |-> DefaultMaxTrackLen],
     [variant |-> "bbox", iouThreshold |-> <<-1, 10>>, maxNoMatch |-> 1,
      maxTrackLen |-> DefaultMaxTrackLen]}

\* the (box, confidence) pairs ByteTracker detections are drawn from: every
\* box with a confidence above highThresh, one between the thresholds, one
\* below lowThresh
ByteDetInputs ==
    {[rect |-> r, conf |-> <<8, 10>>] : r \in DetRects}
    \cup {[rect |-> Rectangle(4, 0, 6, 8), conf |-> <<4, 10>>],
          [rect |-> Rectangle(0, 0, 6, 8), conf |-> <<2, 10>>]}

\* NewByteTracker(maxDisappeared, minIoU, highThresh, lowThresh, algorithm)
ByteConfig(variant, maxDisappeared, algorithm) ==
    [variant |-> variant, maxDisappeared |-> maxDisappeared, minIoU |-> <<3, 10>>,
     highThresh |-> <<5, 10>>, lowThresh |-> <<3, 10>>, algorithm |-> algorithm,
     maxTrackLen |-> IF maxDisappeared = 2 THEN 2 ELSE DefaultMaxTrackLen]

\* the last one is NewByteTracker(2, 0.0, 0.5, 0.3, MatchingAlgorithmHungarian)
ByteConfigs ==
    {ByteConfig("bbox", 3, MatchingAlgorithmHungarian),
     ByteConfig("simple", 2, MatchingAlgorithmGreedy),
     ByteConfig("simple", 1, MatchingAlgorithmGreedy),
     [ByteConfig("bbox", 2, MatchingAlgorithmHungarian) EXCEPT !.minIoU = RZero]}

EmptyMap == [k \in {} |-> 0]

\* the rectangles IoU is called with: width and height are not negative, and
\* may be zero
GeomRects ==
    {Rectangle(x, y, w, h) : x \in 0..MaxSide, y \in 0..1, w \in 0..MaxSide, h \in 0..MaxSide}

\* no call of IoU made
\* the IoU values of the matrices handed to performGreedyMatching and the
\* values of minIoU it is called under
GreedyValues == {<<0, 1>>, <<3, 10>>, <<6, 10>>}

GreedyMinIoUs == {<<0, 1>>, <<3, 10>>}

\* the calls of performGreedyMatching: a matrix of up to MaxDim rows and
\* columns, the stage's tracks and detection indices, minIoU
GreedyInputs ==
    UNION {{[iouMatrix |-> m,
             trackBBoxes |-> [i \in 1..r |-> [ID |-> i, BBox |-> ZeroRect]],
             detectionIndices |-> [j \in 1..c |-> j],
             minIoU |-> t, matches |-> <<>>, done |-> FALSE] :
                m \in [1..r -> [1..c -> GreedyValues]], t \in GreedyMinIoUs} :
           r \in 1..MaxDim, c \in 1..MaxDim}

\* performGreedyMatching not called
NoGreedy ==
    [iouMatrix |-> <<>>, trackBBoxes |-> <<>>, detectionIndices |-> <<>>, minIoU |-> RZero,
     matches |-> <<>>, done |-> FALSE]

\* an empty distanceHeap, nothing pushed yet
NoHeap == [h |-> <<>>, pushed |-> <<>>, popped |-> <<>>, popping |-> FALSE]

NoGeom == [r1 |-> ZeroRect, r2 |-> ZeroRect, iou |-> RZero, done |-> FALSE]

-----------------------------------------------------------------------------
(* The state machine *)

\* the keys the last call registered
RegisteredKeys(lg) == {lg[i].id : i \in {j \in 1..Len(lg) : lg[j].op = "register"}}

\* the tracks the last call updated
UpdatedKeys(lg) == {lg[i].id : i \in {j \in 1..Len(lg) : lg[j].op = "update"}}

\* missRun after a call: n counts the frames that returned nil since the
\* track's last observation (its creation or its last Update); updated tells
\* whether that observation was an Update; clean whether every call since,
\* the observing one included, returned nil
NextMissRun(old, before, lg, r) ==
    [k \in DOMAIN before \cup RegisteredKeys(lg) |->
        IF k \in UpdatedKeys(lg) THEN [n |-> 0, updated |-> TRUE, clean |-> r = "nil"]
        ELSE IF k \in RegisteredKeys(lg) THEN [n |-> 0, updated |-> FALSE, clean |-> TRUE]
        ELSE IF r = "nil" THEN [old[k] EXCEPT !.n = @ + 1]
        ELSE [old[k] EXCEPT !.clean = FALSE]]

\* the box of the track stored or registered under key k in a call
BoxInCall(k, before, lg, detBlobs) ==
    IF k \in DOMAIN before THEN GetBBox(before[k])
    ELSE GetBBox(detBlobs[lg[CHOOSE g \in 1..Len(lg) :
                                lg[g].op = "register" /\ lg[g].id = k].det])

\* evicted after a call: the keys the call removed from the store are added
NextEvicted(old, before, lg, detBlobs, after) ==
    [k \in DOMAIN old \cup ((DOMAIN before \cup RegisteredKeys(lg)) \ DOMAIN after) |->
        IF k \in DOMAIN old THEN old[k] ELSE BoxInCall(k, before, lg, detBlobs)]

\* seen after a call: a registered track starts with the centre it was
\* created at, a successful Update adds the centre it left the track at
NextSeen(old, lg, after) ==
    [k \in DOMAIN after |->
        IF k \in RegisteredKeys(lg) THEN <<GetCenter(after[k])>>
        ELSE IF k \in UpdatedKeys(lg) THEN Append(old[k], GetCenter(after[k]))
        ELSE old[k]]

\* kind "blob" is a lone blob driven through its own methods, held in Objects
\* under its id; the other kinds are a tracker after its constructor
Init ==
    /\ kind \in {"simple", "iou", "byte", "blob", "geom", "heap", "greedy"}
    /\ cfg \in (IF kind = "simple" THEN SimpleConfigs
                ELSE IF kind = "iou" THEN IoUConfigs
                ELSE IF kind = "byte" THEN ByteConfigs
                ELSE IF kind = "blob" THEN {[variant |-> v] : v \in Variants}
                ELSE {[variant |-> "none"]})
    /\ Objects \in (IF kind = "blob"
                    THEN {[k \in {1} |-> NewBlob(cfg.variant, 1, r)] : r \in DetRects}
                    ELSE {EmptyMap})
    /\ nextID = (IF kind = "blob" THEN 2 ELSE 1)
    /\ pre = EmptyMap
    /\ dets = <<>>
    /\ confs = <<>>
    /\ ret = "init"
    /\ log = <<>>
    /\ missRun = EmptyMap
    /\ evicted = EmptyMap
    /\ seen = EmptyMap
    /\ iouRun \in (IF kind = "geom"
                 THEN {[r1 |-> a, r2 |-> b, iou |-> RZero, done |-> FALSE] :
                          a \in GeomRects, b \in GeomRects}
                 ELSE {NoGeom})
    /\ heapRun = NoHeap
    /\ greedyRun \in (IF kind = "greedy" THEN GreedyInputs ELSE {NoGreedy})

\* one frame handed to SimpleTracker.MatchObjects
SimpleMatch ==
    /\ kind = "simple"
    /\ ret # "panic"
    /\ \E rects \in SeqsUpTo(SimpleDetRects, MaxID + 1 - nextID) :
        /\ LET newObjects == FrameDets(cfg, rects, nextID)
           IN \E mins \in [1..Len(rects) -> DOMAIN Objects \cup {NilID}] :
               /\ \A i \in 1..Len(rects) : mins[i] \in SimpleScanIDs(Objects, newObjects[i])
               /\ \E rej \in 0..Len(rects) :
                   \E r \in {SimpleTrackerMatchObjects(Objects, newObjects, mins, rej, cfg)} :
                      /\ r.nUpd >= rej
                      /\ Objects' = r.objs
                      /\ dets' = r.dets
                      /\ ret' = r.ret
                      /\ log' = r.log
                      /\ missRun' = NextMissRun(missRun, Objects, r.log, r.ret)
                      /\ evicted' = NextEvicted(evicted, Objects, r.log, r.dets, r.objs)
                      /\ seen' = NextSeen(seen, r.log, r.objs)
        /\ nextID' = nextID + Len(rects)
    /\ pre' = Objects
    /\ confs' = <<>>
    /\ UNCHANGED <<kind, cfg, iouRun, heapRun, greedyRun>>

\* one frame handed to IoUTracker.MatchObjects
IoUMatch ==
    /\ kind = "iou"
    /\ \E rects \in SeqsUpTo(DetRects, MaxID + 1 - nextID) :
        /\ LET newObjects == FrameDets(cfg, rects, nextID)
           IN \E maxs \in [1..Len(rects) -> DOMAIN Objects \cup {NilID}] :
               /\ \A i \in 1..Len(rects) : maxs[i] \in IoUScanIDs(Objects, newObjects[i])
               /\ \E rej \in 0..Len(rects) :
                   \E r \in {IoUTrackerMatchObjects(Objects, newObjects, maxs, rej, cfg)} :
                      /\ r.nUpd >= rej
                      /\ Objects' = r.objs
                      /\ dets' = r.dets
                      /\ ret' = r.ret
                      /\ log' = r.log
                      /\ missRun' = NextMissRun(missRun, Objects, r.log, r.ret)
                      /\ evicted' = NextEvicted(evicted, Objects, r.log, r.dets, r.objs)
                      /\ seen' = NextSeen(seen, r.log, r.objs)
        /\ nextID' = nextID + Len(rects)
    /\ pre' = Objects
    /\ confs' = <<>>
    /\ UNCHANGED <<kind, cfg, iouRun, heapRun, greedyRun>>

\* one frame handed to ByteTracker.MatchObjects, lengths equal
ByteMatch ==
    /\ kind = "byte"
    /\ \E inputs \in SeqsUpTo(ByteDetInputs, MaxID + 1 - nextID) :
       \E order \in Orders(DOMAIN Objects) :
       \E rej \in 0..Len(inputs) :
       LET rects == [i \in 1..Len(inputs) |-> inputs[i].rect]
           confidences == [i \in 1..Len(inputs) |-> inputs[i].conf]
       IN \E r \in ByteTrackerMatchObjects(Objects, FrameDets(cfg, rects, nextID),
                                           confidences, order, rej, cfg) :
              /\ r.nUpd >= rej
              /\ Objects' = r.objs
              /\ dets' = r.dets
              /\ confs' = confidences
              /\ ret' = r.ret
              /\ log' = r.log
              /\ missRun' = NextMissRun(missRun, Objects, r.log, r.ret)
              /\ evicted' = NextEvicted(evicted, Objects, r.log, r.dets, r.objs)
              /\ seen' = NextSeen(seen, r.log, r.objs)
              /\ nextID' = nextID + Len(inputs)
    /\ pre' = Objects
    /\ UNCHANGED <<kind, cfg, iouRun, heapRun, greedyRun>>

\* ByteTracker.MatchObjects with len(detections) # len(confidences): the call
\* returns before it reads either slice
ByteMismatch ==
    /\ kind = "byte"
    /\ \E n \in 0..(MaxID + 1 - nextID), m \in 0..MaxID :
       \E order \in Orders(DOMAIN Objects) :
       LET confidences == [i \in 1..m |-> <<8, 10>>]
       IN \E r \in ByteTrackerMatchObjects(
                       Objects,
                       FrameDets(cfg, [i \in 1..n |-> Rectangle(0, 0, 6, 8)], nextID),
                       confidences, order, 0, cfg) :
          /\ n # m
          /\ Objects' = r.objs
          /\ dets' = r.dets
          /\ confs' = confidences
          /\ ret' = r.ret
          /\ log' = r.log
          /\ missRun' = NextMissRun(missRun, Objects, r.log, r.ret)
          /\ evicted' = NextEvicted(evicted, Objects, r.log, r.dets, r.objs)
          /\ seen' = NextSeen(seen, r.log, r.objs)
          /\ nextID' = nextID + n
    /\ pre' = Objects
    /\ UNCHANGED <<kind, cfg, iouRun, heapRun, greedyRun>>

\* Update called on the lone blob with a freshly constructed measurement
BlobUpdate ==
    /\ kind = "blob"
    /\ nextID <= MaxID
    /\ \E rect \in DetRects, rejected \in BOOLEAN :
         LET newBlob == NewBlob(cfg.variant, nextID, rect)
             u == Update(Objects[1], newBlob, rejected)
         IN /\ Objects' = [k \in {1} |-> u.blob]
            /\ dets' = <<newBlob>>
            /\ ret' = (IF u.err THEN "error" ELSE "nil")
            /\ log' = <<Event(IF u.err THEN "updatefail" ELSE "update", 1, 1, ZeroPoint)>>
    /\ nextID' = nextID + 1
    /\ pre' = Objects
    /\ UNCHANGED <<kind, cfg, confs, missRun, evicted, seen, iouRun, heapRun, greedyRun>>

\* the history capacities SetMaxTrackLen is called with
TrackLens == {1, 2, DefaultMaxTrackLen}

\* SetMaxTrackLen called on the lone blob
BlobSetMaxTrackLen ==
    /\ kind = "blob"
    /\ \E n \in TrackLens :
         Objects' = [k \in {1} |-> SetMaxTrackLen(Objects[1], n)]
    /\ dets' = <<>>
    /\ ret' = "nil"
    /\ log' = <<>>
    /\ pre' = Objects
    /\ UNCHANGED <<kind, cfg, nextID, confs, missRun, evicted, seen, iouRun, heapRun, greedyRun>>

\* IoU called with the two rectangles
IoUCall ==
    /\ kind = "geom"
    /\ ~iouRun.done
    /\ iouRun' = [iouRun EXCEPT !.iou = IoU(iouRun.r1, iouRun.r2), !.done = TRUE]
    /\ UNCHANGED <<kind, cfg, Objects, nextID, pre, dets, confs, ret, log, missRun, evicted,
                   seen, heapRun, greedyRun>>

\* one Push on the distanceHeap, of an item with any of the distances; the
\* item's id is its position among the pushed items
HeapPush ==
    /\ kind = "heap"
    /\ ~heapRun.popping
    /\ Len(heapRun.pushed) < MaxHeapLen
    /\ \E d \in 0..MaxDistance :
          \E x \in {[underlying |-> 0, distance |-> d, id |-> Len(heapRun.pushed) + 1]} :
              heapRun' = [heapRun EXCEPT !.h = heapPush(heapRun.h, x, "min"),
                                         !.pushed = Append(heapRun.pushed, x)]
    /\ UNCHANGED <<kind, cfg, Objects, nextID, pre, dets, confs, ret, log, missRun, evicted,
                   seen, iouRun, greedyRun>>

\* one Pop from the distanceHeap, which is not empty
HeapPop ==
    /\ kind = "heap"
    /\ Len(heapRun.h) > 0
    /\ \E r \in {heapPop(heapRun.h, "min")} :
          heapRun' = [heapRun EXCEPT !.h = r.heap,
                                     !.popped = Append(heapRun.popped, r.item),
                                     !.popping = TRUE]
    /\ UNCHANGED <<kind, cfg, Objects, nextID, pre, dets, confs, ret, log, missRun, evicted,
                   seen, iouRun, greedyRun>>

\* performGreedyMatching called on the matrix
GreedyCall ==
    /\ kind = "greedy"
    /\ ~greedyRun.done
    /\ greedyRun' = [greedyRun EXCEPT
                        !.matches = performGreedyMatching(greedyRun.iouMatrix,
                                                          greedyRun.trackBBoxes,
                                                          greedyRun.detectionIndices,
                                                          greedyRun.minIoU),
                        !.done = TRUE]
    /\ UNCHANGED <<kind, cfg, Objects, nextID, pre, dets, confs, ret, log, missRun, evicted,
                   seen, iouRun, heapRun>>

Next ==
    \/ SimpleMatch
    \/ IoUMatch
    \/ ByteMatch
    \/ ByteMismatch
    \/ BlobUpdate
    \/ BlobSetMaxTrackLen
    \/ IoUCall
    \/ HeapPush
    \/ HeapPop
    \/ GreedyCall

Spec == Init /\ [][Next]_vars

-----------------------------------------------------------------------------
(* Properties.  pre is the store when the last call began, log what the call *)
(* did, dets the frame's detection blobs as the call left them.              *)

IsTracker == kind \in {"simple", "iou", "byte"}

\* the positions in log of the events of one kind
Ops(op) == {i \in 1..Len(log) : log[i].op = op}

\* the calls of Update, successful or not
UpdateCalls == Ops("update") \cup Ops("updatefail")

\* the configured miss budget
Budget == IF kind = "byte" THEN cfg.maxDisappeared ELSE cfg.maxNoMatch

\* C1: in SimpleTracker and IoUTracker, within one MatchObjects call Update is
\* invoked at most once on any track that was in the store when the call
\* began: no two detections both update the same track.
C1_NoDuplicateClaims ==
    kind \in {"simple", "iou"} =>
        \A i, j \in UpdateCalls :
            (log[i].id = log[j].id /\ log[i].id \in DOMAIN pre) => i = j

\* C1 witness: two detections of one frame both ended their scan on the same
\* stored track, and that track was updated.
C1_Witness ==
    /\ kind \in {"simple", "iou"}
    /\ ret = "nil"
    /\ \E a, b \in Ops("best") :
          /\ a # b
          /\ log[a].id = log[b].id
          /\ log[a].id \in DOMAIN pre
          /\ \E u \in Ops("update") : log[u].id = log[a].id

\* the number of consecutive unmatched frames track k outlives
Survives(k) ==
    IF kind = "simple" THEN cfg.maxNoMatch - 1
    ELSE IF kind = "iou"
    THEN (IF missRun[k].updated THEN cfg.maxNoMatch ELSE cfg.maxNoMatch - 1)
    ELSE (IF missRun[k].updated THEN cfg.maxDisappeared - 1 ELSE cfg.maxDisappeared - 2)

\* C2 as stated: in every tracker a track left unmatched for exactly budget
\* consecutive frames is still in the store, and after budget + 1 it is gone.
C2_Original ==
    IsTracker =>
        \A k \in DOMAIN missRun :
            missRun[k].clean =>
                /\ missRun[k].n = Budget => k \in DOMAIN Objects
                /\ missRun[k].n = Budget + 1 => k \notin DOMAIN Objects

\* C2: counting the frames that returned nil since a track was created or
\* last updated, the track is in the store exactly while the count is at most
\* maxNoMatch - 1 in SimpleTracker; maxNoMatch in IoUTracker if its last
\* observation was an Update, maxNoMatch - 1 if it was never updated;
\* maxDisappeared - 1 in ByteTracker if its last observation was an Update,
\* maxDisappeared - 2 if it was never updated.  It is removed by the frame
\* that takes the count one past that.
C2_EvictionTiming ==
    IsTracker =>
        \A k \in DOMAIN missRun :
            missRun[k].clean =>
                /\ k \in DOMAIN Objects => missRun[k].n <= Survives(k)
                /\ k \notin DOMAIN Objects => missRun[k].n = Survives(k) + 1

\* C2 witness: a track that had been updated was left unmatched frame after
\* frame and has just been evicted.
C2_Witness ==
    /\ IsTracker
    /\ \E k \in DOMAIN missRun :
          /\ missRun[k].clean
          /\ missRun[k].updated
          /\ missRun[k].n >= 1
          /\ k \in DOMAIN pre
          /\ k \notin DOMAIN Objects

\* C3 as stated: in every tracker a track in the store before and after a
\* call that returned nil has missCount 0 exactly if a detection updated it in
\* the call, and its starting missCount plus one otherwise.
C3_Original ==
    (IsTracker /\ ret = "nil") =>
        \A k \in DOMAIN pre \cap DOMAIN Objects :
            /\ (GetNoMatchTimes(Objects[k]) = 0) <=> (k \in UpdatedKeys(log))
            /\ k \notin UpdatedKeys(log) =>
                   GetNoMatchTimes(Objects[k]) = GetNoMatchTimes(pre[k]) + 1

\* C3: a track in the store before and after a call that returned nil, if not
\* updated in the call, has its starting missCount plus one; if updated, it
\* has missCount 0 in IoUTracker and ByteTracker and missCount 1 in
\* SimpleTracker, whose clean-up counts a miss on every stored track.
C3_MissCount ==
    (IsTracker /\ ret = "nil") =>
        \A k \in DOMAIN pre \cap DOMAIN Objects :
            GetNoMatchTimes(Objects[k]) =
                IF k \in UpdatedKeys(log)
                THEN (IF kind = "simple" THEN 1 ELSE 0)
                ELSE GetNoMatchTimes(pre[k]) + 1

\* C3 witness: a call returned nil having updated one stored track and left
\* another one unmatched, and both are still stored.
C3_Witness ==
    /\ IsTracker
    /\ ret = "nil"
    /\ \E k1, k2 \in DOMAIN pre \cap DOMAIN Objects :
          k1 \in UpdatedKeys(log) /\ k2 \notin UpdatedKeys(log)

\* the tracks the last call removed from the store
DeletedKeys == {log[i].id : i \in Ops("delete")}

\* C4 as stated: in every tracker a track is removed at the end of a call
\* exactly if its missCount is greater than the budget (maxNoMatch,
\* maxDisappeared); a track whose missCount equals the budget is kept.
C4_Original ==
    (IsTracker /\ ret = "nil") =>
        /\ \A k \in DOMAIN Objects : ~(GetNoMatchTimes(Objects[k]) > Budget)
        /\ \A i \in Ops("delete") : log[i].n > Budget
        /\ DeletedKeys = (DOMAIN pre \cup RegisteredKeys(log)) \ DOMAIN Objects

\* C4: at the end of a call that returned nil, SimpleTracker and IoUTracker
\* remove a track exactly if its missCount is greater than maxNoMatch, and
\* ByteTracker exactly if its missCount is greater than or equal to
\* maxDisappeared.
C4_Removal ==
    (IsTracker /\ ret = "nil") =>
        /\ \A k \in DOMAIN Objects :
              IF kind = "byte"
              THEN GetNoMatchTimes(Objects[k]) < cfg.maxDisappeared
              ELSE GetNoMatchTimes(Objects[k]) <= cfg.maxNoMatch
        /\ \A i \in Ops("delete") :
              IF kind = "byte"
              THEN log[i].n >= cfg.maxDisappeared
              ELSE log[i].n > cfg.maxNoMatch
        /\ DeletedKeys = (DOMAIN pre \cup RegisteredKeys(log)) \ DOMAIN Objects

\* C4 witness: ByteTracker has just removed a track it held from an earlier
\* frame, at a missCount equal to maxDisappeared.
C4_Witness ==
    /\ kind = "byte"
    /\ ret = "nil"
    /\ \E i \in Ops("delete") :
          log[i].n = cfg.maxDisappeared /\ log[i].id \in DOMAIN pre

\* C5: in every tracker no two stored tracks have the same id, and the id a
\* stored track reports is the key it is stored under.
C5_IDs ==
    IsTracker =>
        /\ \A k \in DOMAIN Objects : GetID(Objects[k]) = k
        /\ \A k1, k2 \in DOMAIN Objects :
              k1 # k2 => GetID(Objects[k1]) # GetID(Objects[k2])

\* C5 witness: the store holds two tracks, one of them updated by the last
\* call.
C5_Witness ==
    /\ IsTracker
    /\ Cardinality(DOMAIN Objects) >= 2
    /\ UpdatedKeys(log) \cap DOMAIN Objects # {}

\* detection i of the last frame updated a track
Matched(i) == \E u \in Ops("update") : log[u].det = i

\* detection i of the last frame was registered as a new track
Created(i) == \E g \in Ops("register") : log[g].det = i /\ log[g].id = GetID(dets[i])

InLowTier(i) == RLess(confs[i], cfg.highThresh) /\ RLeq(cfg.lowThresh, confs[i])

InHighTier(i) == RLeq(cfg.highThresh, confs[i])

\* C6 as stated: in ByteTracker, for any configuration, an unmatched low-tier
\* detection never creates a track, and an unmatched high-tier detection
\* always creates one, which is in the store when MatchObjects returns.
C6_Original ==
    (kind = "byte" /\ ret = "nil") =>
        \A i \in 1..Len(dets) :
            ~Matched(i) =>
                /\ InLowTier(i) => (~Created(i) /\ GetID(dets[i]) \notin DOMAIN Objects)
                /\ InHighTier(i) => (Created(i) /\ GetID(dets[i]) \in DOMAIN Objects)

\* C6: in ByteTracker, when MatchObjects returns nil, an unmatched low-tier
\* detection has created no track; an unmatched high-tier detection has
\* created one, which is in the store under the detection's id with missCount
\* 1 if maxDisappeared is at least 2, and which the same call has already
\* evicted if maxDisappeared is 1 or less.
C6_TierSeparation ==
    (kind = "byte" /\ ret = "nil") =>
        \A i \in 1..Len(dets) :
            ~Matched(i) =>
                /\ InLowTier(i) => (~Created(i) /\ GetID(dets[i]) \notin DOMAIN Objects)
                /\ InHighTier(i) =>
                      /\ Created(i)
                      /\ cfg.maxDisappeared >= 2 =>
                            /\ GetID(dets[i]) \in DOMAIN Objects
                            /\ GetID(Objects[GetID(dets[i])]) = GetID(dets[i])
                            /\ GetNoMatchTimes(Objects[GetID(dets[i])]) = 1
                      /\ cfg.maxDisappeared <= 1 => GetID(dets[i]) \notin DOMAIN Objects

\* C6 witness: one frame brought ByteTracker an unmatched low-tier detection
\* and an unmatched high-tier one, whose track is now stored.
C6_Witness ==
    /\ kind = "byte"
    /\ ret = "nil"
    /\ \E i, j \in 1..Len(dets) :
          /\ ~Matched(i) /\ InLowTier(i)
          /\ ~Matched(j) /\ InHighTier(j) /\ GetID(dets[j]) \in DOMAIN Objects

\* C7: ByteTracker.MatchObjects called with detections and confidences of
\* different lengths returns an error and leaves the store, the tracks in it
\* included, as it was.
C7_MismatchRejected ==
    (kind = "byte" /\ Len(dets) # Len(confs)) =>
        (ret = "error" /\ Objects = pre /\ log = <<>>)

\* C7 witness: ByteTracker, holding tracks, has just been called with slices
\* of different lengths.
C7_Witness ==
    /\ kind = "byte"
    /\ Len(dets) # Len(confs)
    /\ ret = "error"
    /\ DOMAIN Objects # {}

\* C8: the history of a blob never holds more than maxTrackLen points, in
\* either variant, after construction, any number of Updates and
\* SetMaxTrackLen with a value below the current history length.
C8_TrackBounded ==
    \A k \in DOMAIN Objects : Len(GetTrack(Objects[k])) <= GetMaxTrackLen(Objects[k])

\* the last prediction made for track t before position k of the log
PredictedBefore(t, k) == {j \in Ops("predict") : j < k /\ log[j].id = t}

\* C9 as stated: in every tracker, whenever a track is scored against a
\* detection, PredictNextPosition has already been called on it in the same
\* frame and the score is computed from that freshly predicted geometry.
C9_Original ==
    IsTracker =>
        \A k \in Ops("score") :
            \E j \in PredictedBefore(log[k].id, k) : log[k].geom = log[j].geom

\* C10: in all three trackers, when a call returns nil a detection that
\* updated a track carries that track's id, and a detection that updated no
\* track carries the fresh id it was constructed with.
C10_IDOverwritten ==
    (IsTracker /\ ret = "nil") =>
        /\ \A u \in Ops("update") : GetID(dets[log[u].det]) = log[u].id
        /\ \A i \in 1..Len(dets) :
              ~Matched(i) => GetID(dets[i]) = nextID - Len(dets) + i - 1

\* the id detection i of the last frame was constructed with
FreshID(i) == nextID - Len(dets) + i - 1

\* detection i lies beyond the acceptance rule of the tracker for every track
\* stored when the call began: in SimpleTracker its distance to the nearest
\* current centre fails the gate; in IoUTracker neither its hybrid score
\* against any track nor 0.0, the score its scan starts from, exceeds
\* iouThreshold; in ByteTracker its IoU with the freshly predicted box of
\* every track is below minIoU
BeyondGate(i) ==
    IF kind = "simple"
    THEN \A k \in DOMAIN pre :
            /\ 2 * DistanceTo(dets[i], pre[k]) >= GetDiagonal(dets[i])
            /\ DistanceTo(dets[i], pre[k]) >= cfg.minDistThreshold
    ELSE IF kind = "iou"
    THEN /\ ~RLess(cfg.iouThreshold, RZero)
         /\ \A k \in DOMAIN pre : ~RLess(cfg.iouThreshold, IoUCombinedScore(dets[i], pre[k]))
    ELSE \A k \in DOMAIN pre :
            RLess(IoU(GetPredictedBBox(PredictNextPosition(pre[k])), GetBBox(dets[i])),
                  cfg.minIoU)

\* detection i has no overlap with the box of any track stored when the call
\* began and lies more than its own diagonal away from each of their centres
FarFromAll(i) ==
    \A k \in DOMAIN pre :
        /\ REq(IoU(GetBBox(dets[i]), GetBBox(pre[k])), RZero)
        /\ REq(IoU(GetBBox(dets[i]), GetPredictedBBox(pre[k])), RZero)
        /\ DistanceTo(dets[i], pre[k]) > GetDiagonal(dets[i])

BestOf(i) == {log[b].id : b \in {c \in Ops("best") : log[c].det = i}}

\* detection i passes the acceptance gate against track k as the call found it
PassesGate(i, k) ==
    IF kind = "simple"
    THEN \/ 2 * DistanceTo(dets[i], pre[k]) < GetDiagonal(dets[i])
         \/ DistanceTo(dets[i], pre[k]) < cfg.minDistThreshold
    ELSE RLess(cfg.iouThreshold, IoUCombinedScore(dets[i], pre[k]))

\* track k is detection i's best candidate and the detection passes the gate
OwnTrack(i, k) == k \in DOMAIN pre /\ BestOf(i) = {k} /\ PassesGate(i, k)

\* detection i continued track k: it was folded into k, k is still stored
\* under its id, and the detection created no track
Continued(i, k) ==
    /\ \E u \in Ops("update") : log[u].id = k /\ log[u].det = i
    /\ k \in DOMAIN Objects
    /\ GetID(Objects[k]) = k
    /\ ~Created(i)

\* C12 as stated: in every frame (of SimpleTracker and IoUTracker, the
\* trackers that scan for a best candidate) that returns nil, a detection
\* that passes the gate against its own track, its best candidate, updates
\* that track, which stays in the store under its id, and creates no track;
\* so the object's id is the same in all frames.
C12_Original ==
    (kind \in {"simple", "iou"} /\ ret = "nil") =>
        \A i \in 1..Len(dets) : \A k \in DOMAIN pre :
            OwnTrack(i, k) => Continued(i, k)

\* detection i is strictly better placed for track k than detection j: nearer
\* in SimpleTracker, of higher score in IoUTracker
Beats(i, j, k) ==
    IF kind = "simple"
    THEN DistanceTo(dets[i], pre[k]) < DistanceTo(dets[j], pre[k])
    ELSE RLess(IoUCombinedScore(dets[j], pre[k]), IoUCombinedScore(dets[i], pre[k]))

\* every other detection of the frame with best candidate k is beaten by i
WinsTrack(i, k) ==
    \A j \in 1..Len(dets) : (j # i /\ BestOf(j) = {k}) => Beats(i, j, k)

\* C12: in every frame of SimpleTracker and IoUTracker that returns nil, a
\* detection that passes the gate against its best candidate, and is strictly
\* nearer to it (of strictly higher score, in IoUTracker) than every other
\* detection of the frame with the same best candidate, updates that track,
\* which stays in the store under its id (maxNoMatch being at least 1), and
\* creates no track.
C12_IdentifierStable ==
    (kind \in {"simple", "iou"} /\ ret = "nil" /\ cfg.maxNoMatch >= 1) =>
        \A i \in 1..Len(dets) : \A k \in DOMAIN pre :
            (OwnTrack(i, k) /\ WinsTrack(i, k)) => Continued(i, k)

\* C12 witness: a track is continued by its detection in a frame that brought
\* a second detection with the same best candidate, farther away.
C12_Witness ==
    /\ kind \in {"simple", "iou"}
    /\ ret = "nil"
    /\ \E i, j \in 1..Len(dets) : \E k \in DOMAIN pre :
          /\ i # j
          /\ OwnTrack(i, k)
          /\ BestOf(j) = {k}
          /\ WinsTrack(i, k)
          /\ Continued(i, k)

\* C13: a key removed from a tracker's store is never a key of the store
\* again, in any later frame, every detection being a freshly constructed
\* blob; a detection registered after that, also at the box of an evicted
\* track, is stored under another identifier.
C13_NeverReused ==
    IsTracker =>
        /\ \A k \in DOMAIN evicted : k \notin DOMAIN Objects
        /\ \A g \in Ops("register") : \A e \in DOMAIN evicted \ RegisteredKeys(log) :
              log[g].id # e

\* C13 witness: a track was evicted in an earlier frame, and the last call
\* registered a detection with the same box, now stored under another id.
C13_Witness ==
    /\ IsTracker
    /\ ret = "nil"
    /\ \E e \in DOMAIN evicted : \E g \in Ops("register") :
          /\ e \notin DOMAIN pre
          /\ e # log[g].id
          /\ log[g].id \in DOMAIN Objects
          /\ GetBBox(Objects[log[g].id]) = evicted[e]

\* C14: in every tracker, when the motion filter rejects the measurement of
\* an Update, the call returns an error; that Update is the last thing the
\* call does: it is not called again and no detection is processed after it.
C14_ErrorPropagates ==
    IsTracker =>
        \A f \in Ops("updatefail") :
            /\ ret = "error"
            /\ f = Len(log)
            /\ \A u \in UpdateCalls :
                  (log[u].id = log[f].id /\ log[u].det = log[f].det) => u = f

\* C14 witness: the filter rejected the Update of a stored track while
\* another detection of the frame was still waiting to be processed.
C14_Witness ==
    /\ IsTracker
    /\ ret = "error"
    /\ \E f \in Ops("updatefail") : \E j \in 1..Len(dets) :
          /\ log[f].id \in DOMAIN pre
          /\ j # log[f].det
          /\ ~Matched(j)
          /\ ~Created(j)

\* track k is as it was when the call began, in all a detection can change:
\* box, centre, history and missCount
Untouched(k) ==
    /\ k \in DOMAIN Objects
    /\ GetBBox(Objects[k]) = GetBBox(pre[k])
    /\ GetCenter(Objects[k]) = GetCenter(pre[k])
    /\ GetTrack(Objects[k]) = GetTrack(pre[k])
    /\ GetNoMatchTimes(Objects[k]) = GetNoMatchTimes(pre[k])

\* C15: when MatchObjects of any tracker returns an error because an Update
\* failed, nothing of the frame is committed: no stored track has been
\* changed by a detection of the frame, no track has been registered and no
\* missCount differs from what it was before the call.
C15_NotPartial ==
    (IsTracker /\ ret = "error" /\ Ops("updatefail") # {}) =>
        /\ DOMAIN Objects = DOMAIN pre
        /\ \A k \in DOMAIN pre : Untouched(k)
        /\ Ops("update") = {}
        /\ Ops("register") = {}

\* the scan of detection i ended on an id that is no key of the store, and
\* the scan's result passes the acceptance gate
SelectedAbsent(i) ==
    /\ \E k \in BestOf(i) : k \notin DOMAIN pre
    /\ IF kind = "simple"
       THEN \/ 2 * SimpleScanDistance(pre, dets[i]) < GetDiagonal(dets[i])
            \/ SimpleScanDistance(pre, dets[i]) < cfg.minDistThreshold
       ELSE RLess(cfg.iouThreshold, IoUScanScore(pre, dets[i]))

\* C16: in every tracker, a call in which the matching step selected for a
\* detection a track id that passes the gate but is not in the store does not
\* return nil with the detection neither folded into a track nor registered
\* as a new track.
C16_NoSilentSkip ==
    (IsTracker /\ ret = "nil") =>
        \A i \in 1..Len(dets) : SelectedAbsent(i) => (Matched(i) \/ Created(i))

\* the last n elements of a sequence
LastN(q, n) == SubSeq(q, Len(q) - n + 1, Len(q))

\* C17: the history of every track in a tracker's store holds the centres
\* the track was observed at (at its creation and at every successful
\* Update), oldest first; its length is the number of those observations,
\* capped at the blob's maxTrackLen, the oldest points being the ones dropped.
C17_HistoryLength ==
    IsTracker =>
        \A k \in DOMAIN Objects :
            /\ Len(GetTrack(Objects[k])) =
                   minFloat64(Len(seen[k]), GetMaxTrackLen(Objects[k]))
            /\ GetTrack(Objects[k]) = LastN(seen[k], Len(GetTrack(Objects[k])))

\* C17 witness: a stored track has been observed more often than its history
\* holds points, after an Update by the last call.
C17_Witness ==
    /\ IsTracker
    /\ \E k \in DOMAIN Objects :
          /\ k \in UpdatedKeys(log)
          /\ Len(seen[k]) > GetMaxTrackLen(Objects[k])

\* the detections of the last frame as they were handed in
InputDets == FrameDets(cfg, [i \in 1..Len(dets) |-> GetBBox(dets[i])], nextID - Len(dets))

\* what a call decided: the pairs <<detection, track>> of its Updates and the
\* pairs <<detection, 0>> of the detections it registered as new tracks
Assignment(lg) ==
    {<<lg[u].det, lg[u].id>> : u \in {j \in 1..Len(lg) : lg[j].op = "update"}}
    \cup {<<lg[g].det, 0>> : g \in {j \in 1..Len(lg) : lg[j].op = "register"}}

\* the assignments MatchObjects can end with when it is run on the store and
\* the detections of the last call, the motion filter rejecting nothing
Assignments ==
    IF kind = "simple"
    THEN {Assignment(SimpleTrackerMatchObjects(pre, InputDets, mins, 0, cfg).log) :
            mins \in {m \in [1..Len(dets) -> DOMAIN pre \cup {NilID}] :
                        \A i \in 1..Len(dets) : m[i] \in SimpleScanIDs(pre, InputDets[i])}}
    ELSE IF kind = "iou"
    THEN {Assignment(IoUTrackerMatchObjects(pre, InputDets, maxs, 0, cfg).log) :
            maxs \in {m \in [1..Len(dets) -> DOMAIN pre \cup {NilID}] :
                        \A i \in 1..Len(dets) : m[i] \in IoUScanIDs(pre, InputDets[i])}}
    ELSE UNION {{Assignment(r.log) :
                    r \in ByteTrackerMatchObjects(pre, InputDets, confs, order, 0, cfg)} :
                order \in Orders(DOMAIN pre)}

\* C18: run again from the store and with the detections of the last call,
\* MatchObjects decides the same: the same detections update the same tracks
\* and the same detections become new tracks, also when scores tie.
C18_Reproducible ==
    (IsTracker /\ ret = "nil") => Cardinality(Assignments) = 1

\* the area of a rectangle
Area(r) == r.Width * r.Height

\* IoU has been called with one rectangle as both arguments
SameRectCall == kind = "geom" /\ iouRun.done /\ iouRun.r1 = iouRun.r2

InterArea(r1, r2) ==
    LET w == minFloat64(r1.X + r1.Width, r2.X + r2.Width) - maxFloat64(r1.X, r2.X)
        h == minFloat64(r1.Y + r1.Height, r2.Y + r2.Height) - maxFloat64(r1.Y, r2.Y)
    IN IF w > 0 /\ h > 0 THEN w * h ELSE 0

UpdatesBy(i) == {u \in Ops("update") : log[u].det = i}

\* C21: in SimpleTracker and IoUTracker, whatever the thresholds, every
\* detection of a call that returned nil either updated exactly one stored
\* track or was registered as a new track under its own id; none is dropped,
\* and the detections handed to an empty tracker are all registered, as many
\* tracks as there are detections.
C21_AllAccounted ==
    (kind \in {"simple", "iou"} /\ ret = "nil") =>
        /\ \A i \in 1..Len(dets) :
              \/ Cardinality(UpdatesBy(i)) = 1 /\ ~Created(i)
              \/ UpdatesBy(i) = {} /\ Created(i) /\ GetID(dets[i]) = FreshID(i)
        /\ DOMAIN pre = {} => Cardinality(RegisteredKeys(log)) = Len(dets)

\* the distance the scan recorded for detection i against track k
GateDistance(i, k) == DistanceTo(dets[i], pre[k])

\* detection i is nearer to track k than half its own diagonal
BelowHalfDiagonal(i, k) == 2 * GateDistance(i, k) < GetDiagonal(dets[i])

\* detection i is nearer to track k than minDistThreshold
BelowThreshold(i, k) == GateDistance(i, k) < cfg.minDistThreshold

\* C22 as stated: in SimpleTracker a detection updates its nearest track only
\* if its distance to it is below min(0.5 * diagonal, minDistThreshold), and
\* a detection whose distance is not below both bounds is registered as a
\* new track and does not update the track.
C22_Original ==
    (kind = "simple" /\ ret = "nil") =>
        \A i \in 1..Len(dets) : \A k \in BestOf(i) \cap DOMAIN pre :
            /\ Matched(i) => (BelowHalfDiagonal(i, k) /\ BelowThreshold(i, k))
            /\ ~(BelowHalfDiagonal(i, k) /\ BelowThreshold(i, k)) =>
                   (Created(i) /\ ~Matched(i))

\* C22: in SimpleTracker a detection updates a track, its nearest one, only
\* if its distance to it is below half its diagonal or below
\* minDistThreshold, one bound being enough; a detection whose distance to
\* its nearest track is below neither bound is registered as a new track and
\* updates no track.
C22_Gate ==
    (kind = "simple" /\ ret = "nil") =>
        \A i \in 1..Len(dets) : \A k \in BestOf(i) \cap DOMAIN pre :
            /\ \A u \in UpdatesBy(i) :
                  /\ log[u].id = k
                  /\ BelowHalfDiagonal(i, k) \/ BelowThreshold(i, k)
            /\ ~(BelowHalfDiagonal(i, k) \/ BelowThreshold(i, k)) =>
                   (Created(i) /\ ~Matched(i))

\* C22 witness: one frame of SimpleTracker folded into a track a detection
\* whose distance is below one of the two bounds only, and registered as a
\* new track a detection whose distance is below neither.
C22_Witness ==
    /\ kind = "simple"
    /\ ret = "nil"
    /\ \E i, j \in 1..Len(dets) : \E k \in DOMAIN pre :
          /\ BestOf(i) = {k}
          /\ BestOf(j) = {k}
          /\ Matched(i)
          /\ BelowHalfDiagonal(i, k) # BelowThreshold(i, k)
          /\ ~BelowHalfDiagonal(j, k)
          /\ ~BelowThreshold(j, k)
          /\ Created(j)

\* the detections of the last frame whose scan ended with track k
Competitors(k) == {i \in 1..Len(dets) : BestOf(i) = {k}}

\* the detections of the last frame folded into track k
UpdatersOf(k) == {i \in 1..Len(dets) : \E u \in UpdatesBy(i) : log[u].id = k}

\* detection i passes SimpleTracker's gate against track k
SimpleAccepts(i, k) == BelowHalfDiagonal(i, k) \/ BelowThreshold(i, k)

AfterRegistration == DOMAIN pre \cup RegisteredKeys(log)

\* the events of one kind the last call logged for track k
OpsOn(op, k) == {e \in Ops(op) : log[e].id = k}

\* the miss count track k entered the clean-up of the last call with: 0 when
\* it was just registered or updated, Update clearing the count, and the
\* count it began the call with otherwise
CountBefore(k) ==
    IF k \in DOMAIN pre /\ OpsOn("update", k) = {} THEN GetNoMatchTimes(pre[k]) ELSE 0

\* C24: at the end of every SimpleTracker.MatchObjects call that returns nil,
\* after the new tracks are registered, missCount is incremented by one on
\* every track of the store, updated in this frame, left unmatched or just
\* registered, and then exactly the tracks with missCount > maxNoMatch are
\* removed.
C24_CleanUp ==
    (kind = "simple" /\ ret = "nil") =>
        /\ \A k \in AfterRegistration :
              /\ Cardinality(OpsOn("inc", k)) = 1
              /\ \A e \in OpsOn("inc", k) :
                    /\ log[e].n = CountBefore(k) + 1
                    /\ \A g \in Ops("register") : g < e
                    /\ \A d \in OpsOn("delete", k) : e < d
              /\ (k \in DOMAIN Objects) <=> (CountBefore(k) + 1 <= cfg.maxNoMatch)
              /\ (OpsOn("delete", k) # {}) <=> (CountBefore(k) + 1 > cfg.maxNoMatch)
              /\ k \in DOMAIN Objects => GetNoMatchTimes(Objects[k]) = CountBefore(k) + 1
        /\ DOMAIN Objects \subseteq AfterRegistration
        /\ \A e \in Ops("inc") \cup Ops("delete") : log[e].id \in AfterRegistration

\* C24 witness: a frame of SimpleTracker updated one track and left another
\* unmatched; the clean-up counted a miss on both, kept the updated one with
\* a count of 1 and removed the other, its count being over maxNoMatch.
C24_Witness ==
    /\ kind = "simple"
    /\ ret = "nil"
    /\ \E k, m \in DOMAIN pre :
          /\ OpsOn("update", k) # {}
          /\ k \in DOMAIN Objects
          /\ GetNoMatchTimes(Objects[k]) = 1
          /\ OpsOn("update", m) = {}
          /\ OpsOn("inc", m) # {}
          /\ OpsOn("delete", m) # {}
          /\ m \notin DOMAIN Objects

\* the ids of the items of a sequence
ItemIDs(q) == {q[i].id : i \in 1..Len(q)}

\* the pushed items that were not popped yet
Remaining == {heapRun.pushed[n] : n \in (1..Len(heapRun.pushed)) \ ItemIDs(heapRun.popped)}

\* C25: for any sequence of Push calls on a distanceHeap followed by Pop
\* calls, every Pop returns a pushed element that no earlier Pop returned and
\* whose distance is minimal among those remaining, so the distances come out
\* in non-decreasing order; once the heap is empty every pushed element was
\* returned exactly once. Heaps of one and two elements are included.
C25_HeapOrder ==
    kind = "heap" =>
        /\ \A i \in 1..Len(heapRun.popped) :
              /\ heapRun.popped[i].id \in 1..Len(heapRun.pushed)
              /\ heapRun.popped[i] = heapRun.pushed[heapRun.popped[i].id]
              /\ \A j \in 1..Len(heapRun.popped) :
                    /\ i # j => heapRun.popped[i].id # heapRun.popped[j].id
                    /\ i < j => heapRun.popped[i].distance <= heapRun.popped[j].distance
              /\ \A x \in Remaining : heapRun.popped[i].distance <= x.distance
        /\ Range(heapRun.h) = Remaining
        /\ Len(heapRun.h) = Cardinality(Remaining)
        /\ heapRun.h = <<>> => ItemIDs(heapRun.popped) = 1..Len(heapRun.pushed)

\* C25 witness: four items were pushed, the largest distance first, the
\* smallest last and two of them equal, and all four were popped.
C25_Witness ==
    /\ kind = "heap"
    /\ heapRun.h = <<>>
    /\ Len(heapRun.popped) = 4
    /\ heapRun.pushed[1].distance > heapRun.pushed[2].distance
    /\ heapRun.pushed[2].distance = heapRun.pushed[3].distance
    /\ heapRun.pushed[3].distance > heapRun.pushed[4].distance

\* the last event of the last call that belongs to the resolution of the
\* detections: a scan result, an Update with what follows it, a dropped item
LastResolved ==
    LET r == Ops("best") \cup Ops("pop") \cup UpdateCalls \cup Ops("reset") \cup Ops("setid")
             \cup Ops("drop")
    IN IF r = {} THEN 0 ELSE CHOOSE e \in r : \A f \in r : f <= e

\* C26: in IoUTracker, for a detection that wins a stored track with a score
\* above iouThreshold, the calls on the track are PredictNextPosition, Update,
\* ResetNoMatch, in this order and with nothing on that track in between;
\* after all detections are resolved every stored track no detection updated
\* receives exactly one PredictNextPosition and then exactly one miss
\* increment, and the updated tracks receive neither in that pass, so that
\* they leave the call predicted once, updated and with a count of 0.
C26_CallOrder ==
    (kind = "iou" /\ ret = "nil") =>
        /\ \A u \in Ops("update") :
              /\ PassesGate(log[u].det, log[u].id)
              /\ u > 1 /\ log[u - 1].op = "predict" /\ log[u - 1].id = log[u].id
              /\ u < Len(log) /\ log[u + 1].op = "reset" /\ log[u + 1].id = log[u].id
        /\ \A k \in DOMAIN pre :
              IF OpsOn("update", k) # {}
              THEN /\ Cardinality(OpsOn("predict", k)) = 1
                   /\ OpsOn("inc", k) = {}
                   /\ \A e \in OpsOn("predict", k) : e < LastResolved
                   /\ k \in DOMAIN Objects
                   /\ \E i \in UpdatersOf(k) :
                         Objects[k] = ResetNoMatch(
                             Update(PredictNextPosition(Deactivate(pre[k])),
                                    InputDets[i], FALSE).blob)
              ELSE /\ Cardinality(OpsOn("predict", k)) = 1
                   /\ Cardinality(OpsOn("inc", k)) = 1
                   /\ \A e \in OpsOn("predict", k) : \A f \in OpsOn("inc", k) :
                         LastResolved < e /\ e < f
                   /\ k \in DOMAIN Objects =>
                         Objects[k] = IncNoMatch(PredictNextPosition(Deactivate(pre[k])))

\* C26 witness: a frame of IoUTracker in which a detection won one stored
\* track and no detection updated another, which is still stored.
C26_Witness ==
    /\ kind = "iou"
    /\ ret = "nil"
    /\ \E k, m \in DOMAIN pre :
          /\ OpsOn("update", k) # {}
          /\ OpsOn("update", m) = {}
          /\ OpsOn("inc", m) # {}
          /\ m \in DOMAIN Objects

\* the best combined score the scan of IoUTracker found for detection i
BestScore(i) == IoUScanScore(pre, InputDets[i])

\* C27: in IoUTracker detections are resolved in descending order of their
\* best combined score, each of them once; when several detections share the
\* same best track, at most one updates it, one of highest score among them,
\* and each of the others is registered as a new track and updates no track.
C27_DescendingScore ==
    (kind = "iou" /\ ret = "nil") =>
        /\ \A i \in 1..Len(dets) : Cardinality({e \in Ops("pop") : log[e].det = i}) = 1
        /\ \A e, f \in Ops("pop") :
              e < f => RLeq(BestScore(log[f].det), BestScore(log[e].det))
        /\ \A k \in DOMAIN pre :
              Cardinality(Competitors(k)) >= 2 =>
                  /\ Cardinality(UpdatersOf(k)) <= 1
                  /\ UpdatersOf(k) \subseteq Competitors(k)
                  /\ \A i \in UpdatersOf(k) : \A j \in Competitors(k) :
                         RLeq(BestScore(j), BestScore(i))
                  /\ \A j \in Competitors(k) \ UpdatersOf(k) : Created(j) /\ ~Matched(j)

\* C27 witness: two detections of one frame of IoUTracker shared their best
\* track with different scores; the one of higher score was resolved first
\* and updated the track, the other was registered as a new track.
C27_Witness ==
    /\ kind = "iou"
    /\ ret = "nil"
    /\ \E k \in DOMAIN pre : \E i, j \in Competitors(k) :
          /\ RLess(BestScore(j), BestScore(i))
          /\ UpdatersOf(k) = {i}
          /\ Created(j)
          /\ \E e, f \in Ops("pop") : e < f /\ log[e].det = i /\ log[f].det = j

\* a sequence without its i-th element
RemoveAt(q, i) == SubSeq(q, 1, i - 1) \o SubSeq(q, i + 1, Len(q))

\* the confidence of detection i is below lowThresh
Discarded(i) == RLess(confs[i], cfg.lowThresh)

\* what ByteTracker.MatchObjects can leave behind, store and detection blobs,
\* when it is run on the store of the last call with the given detections and
\* confidences, the motion filter rejecting nothing
ByteOutcomes(detections, confidences) ==
    UNION {{<<r.objs, r.dets>> :
                r \in ByteTrackerMatchObjects(pre, detections, confidences, order, 0, cfg)} :
           order \in Orders(DOMAIN pre)}

\* the outcomes of the last frame, detection i left out of the blobs
OutcomesWith(i) ==
    {<<o[1], RemoveAt(o[2], i)>> : o \in ByteOutcomes(InputDets, confs)}

\* the outcomes of the last frame run without detection i and its confidence
OutcomesWithout(i) == ByteOutcomes(RemoveAt(InputDets, i), RemoveAt(confs, i))

StageIoU(k, i) == IoU(GetPredictedBBox(PredictNextPosition(pre[k])), GetBBox(InputDets[i]))

\* C29: in ByteTracker, under both assignment algorithms and in both stages,
\* a track is updated with a detection only if the IoU between the track's
\* predicted box and the detection's box is >= minIoU; on acceptance the
\* track is updated and its missCount reset, and track and detection are
\* consumed: the track takes no other Update and no miss in this frame, the
\* detection updates nothing else and creates no track.
C29_MinIoUGate ==
    (kind = "byte" /\ ret = "nil" /\ Len(confs) = Len(dets)) =>
        \A u \in Ops("update") :
            /\ log[u].id \in DOMAIN pre
            /\ RLeq(cfg.minIoU, StageIoU(log[u].id, log[u].det))
            /\ u < Len(log) /\ log[u + 1].op = "reset" /\ log[u + 1].id = log[u].id
            /\ OpsOn("update", log[u].id) = {u}
            /\ UpdatesBy(log[u].det) = {u}
            /\ OpsOn("inc", log[u].id) = {}
            /\ ~Created(log[u].det)
            /\ log[u].id \in DOMAIN Objects
            /\ Objects[log[u].id] =
                   ResetNoMatch(Update(PredictNextPosition(pre[log[u].id]),
                                       InputDets[log[u].det], FALSE).blob)

\* C29 witness: a frame of ByteTracker in which a low-tier detection updated
\* a track in stage 2 and a high-tier detection, its IoU with every stored
\* track below minIoU, updated none.
C29_Witness ==
    /\ kind = "byte"
    /\ ret = "nil"
    /\ \E i, j \in 1..Len(dets) :
          /\ InLowTier(i)
          /\ Matched(i)
          /\ InHighTier(j)
          /\ ~Matched(j)
          /\ \A k \in DOMAIN pre : RLess(StageIoU(k, j), cfg.minIoU)

\* track k was active when the last frame of ByteTracker began
ActiveAtStart(k) == k \in DOMAIN pre /\ GetNoMatchTimes(pre[k]) < cfg.maxDisappeared

\* the matrix entries the last frame computed for stage 2, those of the
\* detections below highThresh, and for stage 1
Stage2Scores == {e \in Ops("score") : RLess(confs[log[e].det], cfg.highThresh)}

Stage1Scores == Ops("score") \ Stage2Scores

\* the Updates stage 1 made
Stage1Updates == {u \in Ops("update") : RLeq(cfg.highThresh, confs[log[u].det])}

\* C30: in ByteTracker stage 2 considers only tracks that took part in stage
\* 1, the active ones, and were left unmatched by it, and only detections
\* with lowThresh <= confidence < highThresh; stage 1 all being over before
\* stage 2 begins, within one frame every track is updated by at most one
\* detection and every detection updates at most one track.
C30_StageTwo ==
    (kind = "byte" /\ ret = "nil" /\ Len(confs) = Len(dets)) =>
        /\ \A e \in Stage2Scores :
              /\ ActiveAtStart(log[e].id)
              /\ \A u \in Stage1Updates : log[u].id # log[e].id
              /\ \A u \in Stage1Updates \cup Stage1Scores : u < e
              /\ RLeq(cfg.lowThresh, confs[log[e].det])
              /\ UpdatesBy(log[e].det) \cap Stage1Updates = {}
        /\ \A u \in Ops("update") \ Stage1Updates :
              \E e \in Stage2Scores :
                  e < u /\ log[e].id = log[u].id /\ log[e].det = log[u].det
        /\ \A k \in DOMAIN pre : Cardinality(OpsOn("update", k)) <= 1
        /\ \A i \in 1..Len(dets) : Cardinality(UpdatesBy(i)) <= 1

\* C30 witness: in one frame of ByteTracker a high-tier detection updated a
\* track in stage 1, and a low-tier detection overlapping that track by
\* minIoU or more was kept from it and updated no track.
C30_Witness ==
    /\ kind = "byte"
    /\ ret = "nil"
    /\ \E i, j \in 1..Len(dets) : \E k \in DOMAIN pre :
          /\ InHighTier(i)
          /\ UpdatersOf(k) = {i}
          /\ InLowTier(j)
          /\ RLeq(cfg.minIoU, StageIoU(k, j))
          /\ ~Matched(j)

\* the pairs performGreedyMatching returned
GreedyPairs == Range(greedyRun.matches)

\* the columns paired with the rows before row i
ClaimedBefore(i) == {p[2] : p \in {q \in GreedyPairs : q[1] < i}}

\* the columns row i can be paired with: unclaimed, of IoU >= minIoU
Eligible(i) ==
    {j \in 1..Len(greedyRun.detectionIndices) :
        j \notin ClaimedBefore(i) /\ RLeq(greedyRun.minIoU, greedyRun.iouMatrix[i][j])}

\* the column row i is to be paired with: of highest IoU among the eligible
\* ones, the lowest index on ties
BestEligible(i) ==
    {j \in Eligible(i) :
        \A k \in Eligible(i) :
            /\ RLeq(greedyRun.iouMatrix[i][k], greedyRun.iouMatrix[i][j])
            /\ k < j => RLess(greedyRun.iouMatrix[i][k], greedyRun.iouMatrix[i][j])}

\* C31: ByteTracker's greedy assignment processes the track rows in matrix
\* order: each row is paired with the still-unclaimed column of highest IoU
\* (lowest column index on ties) among the columns with IoU >= minIoU, or
\* with none if there is no such column; no column is paired with two rows
\* and no row with two columns.
C31_Greedy ==
    (kind = "greedy" /\ greedyRun.done) =>
        /\ \A a, b \in 1..Len(greedyRun.matches) :
              a < b => /\ greedyRun.matches[a][1] < greedyRun.matches[b][1]
                       /\ greedyRun.matches[a][2] # greedyRun.matches[b][2]
        /\ \A i \in 1..Len(greedyRun.trackBBoxes) :
              {p[2] : p \in {q \in GreedyPairs : q[1] = i}} = BestEligible(i)
        /\ \A p \in GreedyPairs : p[1] \in 1..Len(greedyRun.trackBBoxes)

\* C31 witness: on a 2 x 2 matrix the first row, its two columns tied, took
\* the first column, and the second row, whose best column that was, took
\* the second.
C31_Witness ==
    /\ kind = "greedy"
    /\ greedyRun.done
    /\ greedyRun.matches = <<<<1, 1>>, <<2, 2>>>>
    /\ greedyRun.iouMatrix[1][1] = greedyRun.iouMatrix[1][2]
    /\ RLess(greedyRun.iouMatrix[2][2], greedyRun.iouMatrix[2][1])

\* the tracks stage 1 of the last frame was offered and its detections
ActiveTracks == {k \in DOMAIN pre : ActiveAtStart(k)}

HighDetections == {i \in 1..Len(dets) : InHighTier(i)}

\* the smaller of two numbers
Smaller(a, b) == IF a < b THEN a ELSE b

\* the match lists stage 1 of the last frame can go on with, over every order
\* the store can be iterated in
Stage1Matches ==
    UNION {LET ids == FilterSeq(order, ActiveTracks)
               trackBBoxes == [n \in 1..Len(ids) |->
                                  [ID |-> ids[n],
                                   BBox |-> GetPredictedBBox(PredictNextPosition(pre[ids[n]]))]]
               detectionIndices == SortedSeq(HighDetections)
           IN performMatching(createIoUMatrix(trackBBoxes, detectionIndices, InputDets),
                              trackBBoxes, detectionIndices, cfg.algorithm, cfg.minIoU)
           : order \in Orders(DOMAIN pre)}

\* stage 1 of the last frame ran the optimal algorithm on a padded matrix
PaddedStage ==
    /\ kind = "byte"
    /\ ret = "nil"
    /\ Len(confs) = Len(dets)
    /\ cfg.algorithm = MatchingAlgorithmHungarian
    /\ ActiveTracks # {}
    /\ HighDetections # {}
    /\ Cardinality(ActiveTracks) # Cardinality(HighDetections)

\* C32: in ByteTracker with the optimal algorithm and unequal numbers of
\* tracks and detections, every pair the stage goes on to process has its row
\* within the real tracks and its column within the real detections; a pair
\* with a padded row or column updates no track and consumes no detection,
\* whatever minIoU, 0 included: there are no more Updates than the smaller
\* side has members, each is of a real track with a real detection, a
\* detection left without a track becomes a new track, and a track left
\* without a detection has a miss counted.
C32_PaddedPairs ==
    PaddedStage =>
        /\ \A matches \in Stage1Matches :
              /\ Len(matches) <= Smaller(Cardinality(ActiveTracks), Cardinality(HighDetections))
              /\ \A p \in Range(matches) :
                    /\ p[1] \in 1..Cardinality(ActiveTracks)
                    /\ p[2] \in 1..Cardinality(HighDetections)
        /\ Cardinality(Stage1Updates)
               <= Smaller(Cardinality(ActiveTracks), Cardinality(HighDetections))
        /\ \A u \in Stage1Updates :
              /\ log[u].id \in ActiveTracks
              /\ log[u].det \in HighDetections
              /\ OpsOn("update", log[u].id) = {u}
              /\ UpdatesBy(log[u].det) = {u}
        /\ \A i \in HighDetections : UpdatesBy(i) = {} => Created(i)
        /\ \A k \in ActiveTracks : OpsOn("update", k) = {} => Cardinality(OpsOn("inc", k)) = 1

\* C32 witness: under minIoU 0 the optimal algorithm was run on one track and
\* two high-tier detections; one detection updated the track and the other,
\* paired with the padded row, became a new track.
C32_Witness ==
    /\ PaddedStage
    /\ RLeq(cfg.minIoU, RZero)
    /\ Cardinality(ActiveTracks) = 1
    /\ Cardinality(HighDetections) = 2
    /\ \E i, j \in HighDetections : i # j /\ Matched(i) /\ ~Matched(j) /\ Created(j)

\* the events of stage 1, stage 2 and new-track creation
MatchingOps ==
    Ops("score") \cup UpdateCalls \cup Ops("reset") \cup Ops("activate") \cup Ops("register")

\* the centre the motion filter of track k holds once it has predicted
PredictedCentre(k) == Point(pre[k].tracker.cx + Drift, pre[k].tracker.cy)

\* C33: within one ByteTracker.MatchObjects call the steps are strictly
\* ordered: PredictNextPosition has been called on every stored track before
\* any IoU score is computed, the scores being computed from the predicted
\* boxes, and no missCount increment or eviction happens before stage 1,
\* stage 2 and new-track creation have all finished, so that a track created
\* in the frame is counted and evicted like the others.
C33_StepOrder ==
    (kind = "byte" /\ ret \in {"nil", "error"} /\ Len(confs) = Len(dets)) =>
        /\ \A k \in DOMAIN pre :
              /\ Cardinality(OpsOn("predict", k)) = 1
              /\ \A p \in OpsOn("predict", k) :
                    /\ log[p].geom = PredictedCentre(k)
                    /\ \A e \in Ops("score") : p < e
                    /\ \A e \in OpsOn("score", k) : log[e].geom = PredictedCentre(k)
        /\ \A e \in Ops("inc") \cup Ops("delete") : \A m \in MatchingOps : m < e
        /\ \A e \in Ops("inc") : \A d \in Ops("delete") : e < d
        /\ \A i \in 1..Len(dets) :
              Created(i) =>
                  /\ OpsOn("inc", GetID(dets[i])) # {}
                  /\ GetID(dets[i]) \in DOMAIN Objects =>
                         GetNoMatchTimes(Objects[GetID(dets[i])]) = 1
                  /\ (GetID(dets[i]) \notin DOMAIN Objects) <=> (cfg.maxDisappeared <= 1)

\* C33 witness: a frame of ByteTracker predicted a stored track, scored it
\* against its detections, created a track, and then counted a miss on the
\* stored track, left unmatched, and on the new one.
C33_Witness ==
    /\ kind = "byte"
    /\ ret = "nil"
    /\ Ops("score") # {}
    /\ \E k \in DOMAIN pre : \E i \in 1..Len(dets) :
          /\ OpsOn("score", k) # {}
          /\ OpsOn("inc", k) # {}
          /\ Created(i)
          /\ OpsOn("inc", GetID(dets[i])) # {}

\* the keys of ByteTracker's store once the new tracks of the last frame were
\* added
AfterCreation == DOMAIN pre \cup {GetID(dets[i]) : i \in {j \in 1..Len(dets) : Created(j)}}

\* the miss count of track k when the last frame of ByteTracker has done its
\* bookkeeping: 0 for a matched track, one more than before for any other,
\* a track created in the frame starting from 0
CountAfterFrame(k) ==
    IF OpsOn("update", k) # {} THEN 0
    ELSE IF k \in DOMAIN pre THEN GetNoMatchTimes(pre[k]) + 1
    ELSE 1

\* C34: at the end of every ByteTracker.MatchObjects call that returns nil,
\* every stored track that was not matched in stage 1 or stage 2, a track
\* created in this very frame included, has had its missCount incremented by
\* exactly one (and a matched track has not), and afterwards exactly the
\* tracks with missCount >= maxDisappeared are removed from the store.
C34_MissBookkeeping ==
    (kind = "byte" /\ ret = "nil" /\ Len(confs) = Len(dets)) =>
        /\ \A k \in AfterCreation :
              /\ Cardinality(OpsOn("inc", k)) = (IF OpsOn("update", k) # {} THEN 0 ELSE 1)
              /\ \A e \in OpsOn("inc", k) : log[e].n = CountAfterFrame(k)
              /\ (k \in DOMAIN Objects) <=> (CountAfterFrame(k) < cfg.maxDisappeared)
              /\ (OpsOn("delete", k) # {}) <=> (CountAfterFrame(k) >= cfg.maxDisappeared)
              /\ k \in DOMAIN Objects => GetNoMatchTimes(Objects[k]) = CountAfterFrame(k)
        /\ DOMAIN Objects \subseteq AfterCreation
        /\ \A e \in Ops("inc") \cup Ops("delete") : log[e].id \in AfterCreation

\* C34 witness: a frame of ByteTracker left a stored track unmatched and
\* created a new one; a miss was counted on both, the stored track reached
\* maxDisappeared and was removed, and the new track is stored with count 1.
C34_Witness ==
    /\ kind = "byte"
    /\ ret = "nil"
    /\ \E k \in DOMAIN pre : \E i \in 1..Len(dets) :
          /\ OpsOn("update", k) = {}
          /\ OpsOn("inc", k) # {}
          /\ OpsOn("delete", k) # {}
          /\ k \notin DOMAIN Objects
          /\ Created(i)
          /\ GetID(dets[i]) \in DOMAIN Objects
          /\ GetNoMatchTimes(Objects[GetID(dets[i])]) = 1

\* the least and the greatest miss count a stored track can have after a call
LeastCount == IF kind = "simple" THEN 1 ELSE 0

GreatestCount == IF kind = "byte" THEN cfg.maxDisappeared - 1 ELSE cfg.maxNoMatch

\* C35: after every MatchObjects call that returns nil every track in the
\* store has a missCount within the tracker's budget: 1 <= missCount <=
\* maxNoMatch in SimpleTracker, 0 <= missCount <= maxNoMatch in IoUTracker,
\* 0 <= missCount < maxDisappeared in ByteTracker.
C35_CountWithinBudget ==
    (IsTracker /\ ret = "nil") =>
        \A k \in DOMAIN Objects :
            /\ LeastCount <= GetNoMatchTimes(Objects[k])
            /\ GetNoMatchTimes(Objects[k]) <= GreatestCount

\* C35 witness: after a call that returned nil the store holds a track with
\* the least count its tracker allows and another with the greatest.
C35_Witness ==
    /\ IsTracker
    /\ ret = "nil"
    /\ LeastCount < GreatestCount
    /\ \E k, m \in DOMAIN Objects :
          /\ GetNoMatchTimes(Objects[k]) = LeastCount
          /\ GetNoMatchTimes(Objects[m]) = GreatestCount

\* the stored tracks at or above the miss budget
StaleTracks == {k \in DOMAIN Objects : GetNoMatchTimes(Objects[k]) >= cfg.maxDisappeared}

\* C36: in ByteTracker, after any sequence of MatchObjects calls, whatever
\* they returned, no stored track is stale: every stored track has a miss
\* count below maxDisappeared, the partition at the start of the last frame
\* left no stored track out of the matching, and GetActiveTracks returns
\* every track in the store.
C36_NoStaleTrack ==
    kind = "byte" =>
        /\ StaleTracks = {}
        /\ \A k \in DOMAIN pre : ActiveAtStart(k)
        /\ GetActiveTracks(Objects, cfg.maxDisappeared) = {Objects[k] : k \in DOMAIN Objects}

\* C36 witness: a track that entered the last frame one miss below
\* maxDisappeared, after at least one miss, was scored against a detection
\* and is still stored and returned by GetActiveTracks.
C36_Witness ==
    /\ kind = "byte" /\ ret = "nil"
    /\ \E k \in DOMAIN pre \cap DOMAIN Objects :
          /\ GetNoMatchTimes(pre[k]) = cfg.maxDisappeared - 1
          /\ GetNoMatchTimes(pre[k]) > 0
          /\ \E e \in Ops("score") : log[e].id = k
          /\ Objects[k] \in GetActiveTracks(Objects, cfg.maxDisappeared)
\* what a caller can read of a track: current box, current centre, diagonal,
\* active flag, miss count and history
Observable(blob) ==
    <<GetBBox(blob), GetCenter(blob), GetDiagonal(blob), blob.active,
      GetNoMatchTimes(blob), GetTrack(blob)>>

\* C37: for both blob variants, an Update whose measurement the motion
\* filter rejects returns an error and leaves the current box, current
\* centre, diagonal, active flag, miss count and history of the track as
\* they were before the call.
C37_RejectedUnchanged ==
    (kind = "blob" /\ ret = "error" /\ Ops("updatefail") # {}) =>
        Observable(Objects[1]) = Observable(pre[1])
\* C38: SimpleTracker.MatchObjects never takes its panic branch, over any
\* sequence of frames of fresh detections with a finite minDistThreshold
\* and finite diagonals, frames submitted to an empty store included.
C38_NoPanic ==
    kind = "simple" => ret # "panic"

\* C38 witness: a frame of two detections submitted to an empty store: each
\* was popped with the zero id as its candidate, and the call returned nil
\* with both registered.
C38_Witness ==
    /\ kind = "simple" /\ ret = "nil"
    /\ DOMAIN pre = {} /\ Len(dets) = 2
    /\ \A i \in 1..Len(dets) :
          /\ \E e \in Ops("pop") : log[e].det = i /\ log[e].id = NilID
          /\ GetID(dets[i]) \in DOMAIN Objects
\* the motion filter of track k after one prediction step and, when a
\* detection updated the track, the Update by that detection
FilterAfterFrame(k) ==
    IF OpsOn("update", k) = {}
    THEN {PredictNextPosition(pre[k]).tracker}
    ELSE {Update(PredictNextPosition(pre[k]), InputDets[i], FALSE).blob.tracker :
            i \in UpdatersOf(k)}

\* C39: in every tracker, a MatchObjects call that returns nil invokes
\* PredictNextPosition exactly once on each track that was in the store when
\* the call began, updated by a detection or not: the filter of a track
\* still stored is one prediction step, and the Update if any, away from
\* where it was.  In IoUTracker the step comes right before the Update of
\* a matched track and in the unmatched pass for the others, never both
\* and never neither.
C39_PredictOnce ==
    (IsTracker /\ ret = "nil") =>
        \A k \in DOMAIN pre :
            /\ Cardinality(OpsOn("predict", k)) = 1
            /\ \A p \in OpsOn("predict", k) : log[p].geom = PredictedCentre(k)
            /\ k \in DOMAIN Objects => Objects[k].tracker \in FilterAfterFrame(k)
            /\ kind = "iou" =>
                  \A p \in OpsOn("predict", k) :
                      /\ p < Len(log)
                      /\ log[p + 1].id = k
                      /\ log[p + 1].op = (IF OpsOn("update", k) # {} THEN "update" ELSE "inc")
                      /\ (p < LastResolved) <=> (OpsOn("update", k) # {})

\* C39 witness: an IoUTracker call that returned nil with two tracks in the
\* store at its start, one updated by the detection and one left unmatched,
\* both still stored.
C39_Witness ==
    /\ kind = "iou" /\ ret = "nil"
    /\ \E k, m \in DOMAIN pre \cap DOMAIN Objects :
          /\ OpsOn("update", k) # {}
          /\ OpsOn("update", m) = {} /\ OpsOn("inc", m) # {}
====
